---- MODULE Spec2Model ----
(***************************************************************************)
(* Release reconciliation of git-action-release: ReleaseManager.execute    *)
(* (src/src/release.ts) driving the GitHub provider                        *)
(* (src/src/platform/github.ts) and the Gitea provider                     *)
(* (src/unnamed/part_013) against a release backend.                       *)
(*                                                                         *)
(* JavaScript objects are records that carry only the fields that are      *)
(* defined: an omitted (undefined) field is a field that is not in the     *)
(* DOMAIN of the record.                                                   *)
(***************************************************************************)
EXTENDS Integers, Sequences, FiniteSets, TLC

VARIABLES
    cfg,        \* ActionInputs of this invocation
    pc,         \* position of the run inside execute / the provider call
    attempt,    \* loop counter of the retry loop the run is in
    existing,   \* existingRelease of execute (Null or a ReleaseResult)
    payload,    \* releaseConfig of execute
    release,    \* the ReleaseResult execute returns (Null before)
    error,      \* the error execute threw (NoError while none)
    calls,      \* provider calls the manager made in this run, in order
    http,       \* HTTP requests issued in this run, in order
    outputs,    \* what setOutputs published to the output sink
    failed,     \* what run() passed to core.setFailed (NoError if nothing)
    todo,       \* asset stage: listed assets still to delete / paths still to upload
    uploaded,   \* asset stage: uploadedAssets of handleAssets
    releases,   \* backend: the releases it holds, in list order
    tagRefs,    \* backend: TRUE iff the git tag Tag exists
    runs,       \* number of the current invocation (1-based)
    firstRun,   \* outcome of the previous invocation (Null during the first)
    inflight    \* promises not settled yet: provider calls with their pending request

vars == <<cfg, pc, attempt, existing, payload, release, error, calls, http,
          outputs, failed, todo, uploaded, releases, tagRefs, runs, firstRun,
          inflight>>


-----------------------------------------------------------------------------
(* Bounds of the model *)

\* invocations of the action checked in sequence against one backend
MaxRuns == 2
\* releases the backend may come to hold
MaxReleases == 3

-----------------------------------------------------------------------------
(* Values *)

Null == [null |-> TRUE]
NoError == [none |-> TRUE]

OtherTag == "v0.9.0"

Has(rec, f) == f \in DOMAIN rec
\* JavaScript truthiness of rec.f, for a boolean and for a string field
TruthyB(rec, f) == Has(rec, f) /\ rec[f]
TruthyS(rec, f) == Has(rec, f) /\ rec[f] # ""

\* outcomes of fetch that make request() throw:
\*   text404 tells whether the status text or the response body happens to
\*   contain the characters 404
HttpErrors ==
    { [status |-> 404, text404 |-> FALSE],
      [status |-> 500, text404 |-> FALSE],
      [status |-> 500, text404 |-> TRUE] }

NotFound == [status |-> 404, text404 |-> FALSE]

\* fetch itself rejects (no HTTP response at all)
NetworkFailure == [msg |-> "fetch failed", text404 |-> FALSE]

\* the message of the Error that request() throws contains "404"
\* (errorMessage.includes('404'))
Includes404(e) == (Has(e, "status") /\ e.status = 404) \/ e.text404

OkResp(d) == [ok |-> TRUE, data |-> d]
ErrResp(e) == [ok |-> FALSE, err |-> e]

Return(v) == [kind |-> "return", value |-> v]
Throw(e) == [kind |-> "throw", err |-> e]

-----------------------------------------------------------------------------
(* ReleaseManager: the tag *)

\* a ref of the environment is the sequence of its parts: <<>> is the unset
\* (or empty) variable, <<"refs/tags/", name>> a tag ref
Refs == { <<>>, <<"refs/tags/", "v1.0.0">>, <<"refs/tags/", OtherTag>>,
          <<"refs/heads/", "main">> }

\* process.env.GITHUB_REF || process.env.GITEA_REF || ''
EnvRef(c) == IF c.githubRef # <<>> THEN c.githubRef ELSE c.giteaRef

\* ref.startsWith('refs/tags/')
IsTagRef(ref) == ref # <<>> /\ Head(ref) = "refs/tags/"

TagRequired ==
    [msg |-> "Tag is required. Provide tag input or push a tag to trigger the workflow.",
     text404 |-> FALSE]

\* a faulty variant that lets the pushed ref win over the configured tag
getTag_RefFirst(c) ==
    IF IsTagRef(EnvRef(c)) THEN Return(EnvRef(c)[2])
    ELSE IF c.tag # "" THEN Return(c.tag)
    ELSE Throw(TagRequired)

\* ReleaseManager.getTag
getTag(c) ==
    IF c.tag # "" THEN Return(c.tag)
    ELSE IF IsTagRef(EnvRef(c)) THEN Return(EnvRef(c)[2])
    ELSE Throw(TagRequired)

\* const tag = this.getTag(): the tag this run is about ("" if there is none)
Tag == IF getTag(cfg).kind = "return" THEN getTag(cfg).value ELSE ""

-----------------------------------------------------------------------------
(* The backend: what it holds and what it answers *)

EmptyMap == [n \in {} |-> ""]

\* the JSON object the backend sends for the release r it holds
ApiRelease(r) ==
    [id |-> r.id, tag_name |-> r.tag_name,
     html_url |-> <<"html", r.id>>,
     upload_url |-> IF cfg.platform = "github"
                    THEN <<"upload", r.id, "{?name,label}">>
                    ELSE <<"upload", r.id>>,
     tarball_url |-> <<"tarball", r.id>>,
     zipball_url |-> <<"zipball", r.id>>,
     draft |-> r.draft, prerelease |-> r.prerelease,
     assets |-> r.assets]

\* the tag endpoint of the primary platform does not index draft releases;
\* a release that either backend has not indexed yet is not served
TagVisible(r) ==
    /\ r.tag_name = Tag
    /\ r.indexed
    /\ (cfg.platform = "github" => ~r.draft)

TagHits == SelectSeq(releases, TagVisible)

ListVisible(r) == r.indexed

\* the array the list endpoint answers with (newest first)
ListData ==
    LET vis == SelectSeq(releases, ListVisible)
    IN  [i \in 1..Len(vis) |-> ApiRelease(vis[i])]

\* a request the backend can answer successfully may still fail in transport
\* or with a server error; a request for something it does not serve is
\* answered 404 or fails likewise
FailuresOf(served) == IF served THEN HttpErrors \ {NotFound} ELSE HttpErrors

\* the lookups are also run against a network that fails
LookupFailuresOf(served) == FailuresOf(served) \cup {NetworkFailure}

\* a success response whose body is not valid JSON: JSON.parse (response.json())
\* throws a SyntaxError, whose message may quote the body
Malformed ==
    {[msg |-> "SyntaxError: not valid JSON", text404 |-> b] : b \in BOOLEAN}

\* GET .../releases/tags/{tag}
TagEndpoint ==
    {OkResp(ApiRelease(TagHits[1])) : x \in (IF TagHits # <<>> THEN {1} ELSE {})}
        \cup {ErrResp(e) : e \in LookupFailuresOf(TagHits # <<>>) \cup Malformed}

\* GET .../releases (?per_page=100); no caller looks at the text of its error
ListEndpoint ==
    {OkResp(ListData)}
        \cup {ErrResp(e) : e \in {x \in LookupFailuresOf(TRUE) : ~x.text404}}

-----------------------------------------------------------------------------
(* Providers: getReleaseByTag *)

\* assets[asset.name] = asset.browser_download_url, in array order
AssetMap(as) ==
    [n \in {as[i].name : i \in 1..Len(as)} |->
        LET last == CHOOSE i \in 1..Len(as) :
                        /\ as[i].name = n
                        /\ \A j \in 1..Len(as) : as[j].name = n => j <= i
        IN  as[last].browser_download_url]

\* data.upload_url.replace('{?name,label}', '')
StripTemplate(u) ==
    IF Len(u) = 3 /\ u[3] = "{?name,label}" THEN SubSeq(u, 1, 2) ELSE u

\* the ReleaseResult the primary provider builds from a release object
GitHubResult(data, assets) ==
    [id |-> ToString(data.id),
     html_url |-> data.html_url,
     upload_url |-> StripTemplate(data.upload_url),
     tarball_url |-> data.tarball_url,
     zipball_url |-> data.zipball_url,
     assets |-> assets,
     draft |-> data.draft,
     prerelease |-> data.prerelease]

\* the ReleaseResult the self-hosted provider builds from a release object
GiteaResult(data, assets) ==
    [id |-> ToString(data.id),
     html_url |-> data.html_url,
     upload_url |-> data.upload_url,
     tarball_url |-> data.tarball_url,
     zipball_url |-> data.zipball_url,
     assets |-> assets,
     draft |-> data.draft,
     prerelease |-> data.prerelease]

\* GitHubProvider.getReleaseByTag, the direct request: what it does with the
\* response ("fallback" = go on to list the releases)
GitHubDirectLookup(resp) ==
    IF resp.ok THEN Return(GitHubResult(resp.data, AssetMap(resp.data.assets)))
    ELSE IF Includes404(resp.err) THEN [kind |-> "fallback"]
    ELSE Throw(resp.err)

\* releases.find((r) => r.tag_name === tag): index of the first match, 0 if none
FindByTag(list) ==
    IF \E i \in 1..Len(list) : list[i].tag_name = Tag
    THEN CHOOSE i \in 1..Len(list) :
            /\ list[i].tag_name = Tag
            /\ \A j \in 1..(i - 1) : list[j].tag_name # Tag
    ELSE 0

maxRetries == 3
retryDelay == 1000

\* a faulty variant that returns the listed release without its assets
GitHubListAttempt_NoAssets(resp, att) ==
    IF ~resp.ok THEN Return(Null)
    ELSE LET i == FindByTag(resp.data)
         IN  IF i # 0
             THEN Return(GitHubResult(resp.data[i], EmptyMap))
             ELSE IF att + 1 < maxRetries THEN [kind |-> "retry"]
             ELSE Return(Null)

\* a faulty variant that lists again for as long as the tag is not listed
GitHubListAttempt_Unbounded(resp, att) ==
    IF ~resp.ok THEN Return(Null)
    ELSE LET i == FindByTag(resp.data)
         IN  IF i # 0
             THEN Return(GitHubResult(resp.data[i], AssetMap(resp.data[i].assets)))
             ELSE [kind |-> "retry"]

\* GitHubProvider.getReleaseByTag, list attempt number att (0-based): what
\* it does with the response ("retry" = next attempt)
GitHubListAttempt(resp, att) ==
    IF ~resp.ok THEN Return(Null)
    ELSE LET i == FindByTag(resp.data)
         IN  IF i # 0
             THEN Return(GitHubResult(resp.data[i], AssetMap(resp.data[i].assets)))
             ELSE IF att + 1 < maxRetries THEN [kind |-> "retry"]
             ELSE Return(Null)

\* a faulty variant that lets the not-found answer escape as an error
GiteaGetReleaseByTag_Strict(resp) ==
    IF resp.ok THEN Return(GiteaResult(resp.data, AssetMap(resp.data.assets)))
    ELSE Throw(resp.err)

\* GiteaProvider.getReleaseByTag: what it does with the response
GiteaGetReleaseByTag(resp) ==
    IF resp.ok THEN Return(GiteaResult(resp.data, AssetMap(resp.data.assets)))
    ELSE IF Includes404(resp.err) THEN Return(Null)
    ELSE Throw(resp.err)

-----------------------------------------------------------------------------
(* ReleaseManager: the payload *)

EmptyRec == [f \in {} |-> TRUE]
Field(present, k, v) == IF present THEN k :> v ELSE EmptyRec

\* String.prototype.trim on the strings of the model
Trim(str) == IF str \in {" ", "  "} THEN ""
             ELSE IF str = " Body " THEN "Body"
             ELSE IF str = " Notes " THEN "Notes"
             ELSE str

\* the body files on disk and fs.readFileSync(path, 'utf-8') of each
BodyFileTexts == (<<"notes.md">> :> " Notes ")

\* this.config.bodyFile is set and !fs.existsSync(this.config.bodyFile)
BodyFileNotFound(c) == c.bodyFile # <<>> /\ c.bodyFile \notin DOMAIN BodyFileTexts

\* ReleaseManager.getReleaseBody, when it does not throw
getReleaseBody(c) ==
    IF c.bodyFile # <<>> THEN Trim(BodyFileTexts[c.bodyFile])
    ELSE IF c.body # "" THEN Trim(c.body) ELSE ""

\* a faulty variant of the dispatch test that forgets allowUpdates
Updating_AnyExisting(c, ex) == ex # Null

\* existingRelease && this.config.allowUpdates
Updating(c, ex) == ex # Null /\ c.allowUpdates

\* prepareReleaseConfig throws what getReleaseBody throws, if it asks for the body
PrepareError(c, ex) ==
    IF ~c.omitBody /\ ~(Updating(c, ex) /\ c.omitBodyDuringUpdate) /\ BodyFileNotFound(c)
    THEN [msg |-> "Body file not found", text404 |-> FALSE]
    ELSE NoError

\* ReleaseManager.prepareReleaseConfig, when it does not throw
prepareReleaseConfig(c, ex) ==
    [tag |-> Tag]
    @@ Field(~c.omitName /\ ~(Updating(c, ex) /\ c.omitNameDuringUpdate) /\ c.name # "",
             "name", c.name)
    @@ Field(~c.omitBody /\ ~(Updating(c, ex) /\ c.omitBodyDuringUpdate),
             "body", getReleaseBody(c))
    @@ Field(~(Updating(c, ex) /\ c.omitDraftDuringUpdate), "draft", c.draft)
    @@ Field(~(Updating(c, ex) /\ c.omitPrereleaseDuringUpdate),
             "prerelease", c.prerelease)
    @@ Field(c.owner # "", "owner", c.owner)
    @@ Field(c.repo # "", "repo", c.repo)

\* config.f || dflt, for a string and for a boolean field
OrElse(rec, f, dflt) == IF TruthyS(rec, f) THEN rec[f] ELSE dflt
OrFalse(rec, f) == TruthyB(rec, f)

\* GitHubProvider.createRelease: the request body (releaseData)
GitHubCreateBody(config) ==
    [tag_name |-> config.tag,
     name |-> OrElse(config, "name", config.tag),
     body |-> OrElse(config, "body", ""),
     draft |-> OrFalse(config, "draft"),
     prerelease |-> OrFalse(config, "prerelease"),
     generate_release_notes |-> FALSE]

\* GiteaProvider.createRelease: the request body (releaseData)
GiteaCreateBody(config) ==
    [tag_name |-> config.tag,
     name |-> OrElse(config, "name", config.tag),
     body |-> OrElse(config, "body", ""),
     draft |-> OrFalse(config, "draft"),
     prerelease |-> OrFalse(config, "prerelease")]

\* a faulty variant that fills in defaults the way createRelease does
GitHubUpdateBody_Defaults(config) ==
    [name |-> OrElse(config, "name", config.tag),
     body |-> OrElse(config, "body", ""),
     draft |-> OrFalse(config, "draft"),
     prerelease |-> OrFalse(config, "prerelease")]

\* GitHubProvider.updateRelease: the request body (releaseData)
GitHubUpdateBody(config) ==
    Field(Has(config, "name"), "name", config.name)
    @@ Field(Has(config, "body"), "body", config.body)
    @@ Field(Has(config, "draft"), "draft", config.draft)
    @@ Field(Has(config, "prerelease"), "prerelease", config.prerelease)

\* GiteaProvider.updateRelease: the request body (releaseData)
GiteaUpdateBody(config) ==
    Field(Has(config, "name"), "name", config.name)
    @@ Field(Has(config, "body"), "body", config.body)
    @@ Field(Has(config, "draft"), "draft", config.draft)
    @@ Field(Has(config, "prerelease"), "prerelease", config.prerelease)

UpdateBody(platform, config) ==
    IF platform = "github" THEN GitHubUpdateBody(config) ELSE GiteaUpdateBody(config)

-----------------------------------------------------------------------------
(* Inputs and initial states *)

\* the inputs every slice of initial states starts from
GiteaLookupMaxRetries == 2

DigitChars == <<"0", "1", "2", "3", "4", "5", "6", "7", "8", "9">>

\* String(n), for a number of one or two digits
String(n) ==
    IF n < 10 THEN <<DigitChars[n + 1]>>
    ELSE <<DigitChars[(n \div 10) + 1], DigitChars[(n % 10) + 1]>>

\* process.env, the variables of the confirmation polling: the runs are
\* configured with GiteaLookupMaxRetries attempts and the default delays
LookupEnv == [GITEA_RELEASE_LOOKUP_MAX_RETRIES |-> String(GiteaLookupMaxRetries)]

Defaults ==
    [platform |-> "github", githubSha |-> "", giteaSha |-> "",
     tag |-> "v1.0.0", githubRef |-> <<>>, giteaRef |-> <<>>,
     skipIfReleaseExists |-> FALSE, allowUpdates |-> FALSE,
     updateOnlyUnreleased |-> FALSE, commit |-> "",
     generateReleaseNotes |-> FALSE,
     name |-> "My Release", body |-> " Body ",
     draft |-> FALSE, prerelease |-> FALSE,
     omitName |-> FALSE, omitBody |-> FALSE,
     omitNameDuringUpdate |-> FALSE, omitBodyDuringUpdate |-> FALSE,
     omitDraftDuringUpdate |-> FALSE, omitPrereleaseDuringUpdate |-> FALSE,
     artifacts |-> <<>>, removeArtifacts |-> FALSE,
     replacesArtifacts |-> TRUE, artifactErrorsFailBuild |-> FALSE,
     skipCertificateCheck |-> FALSE,
     repository |-> <<>>, owner |-> "", repo |-> "", bodyFile |-> <<>>,
     env |-> LookupEnv]

Platforms == {"github", "gitea"}
Commits == {"", "abc123"}
Names == {"", "My Release"}
BodyTexts == {"", " Body "}
\* (generateReleaseNotes, body)
NotesSpecs == {<<FALSE, " Body ">>, <<TRUE, " Body ">>, <<TRUE, "">>}

\* inputs that steer the workflow (no artifacts: AssetConfigs has them)
ControlConfigs ==
    { [Defaults EXCEPT !.platform = p, !.skipIfReleaseExists = s,
                       !.allowUpdates = a, !.updateOnlyUnreleased = u,
                       !.commit = c, !.generateReleaseNotes = n[1], !.body = n[2],
                       !.draft = d] :
        p \in Platforms, s \in BOOLEAN, a \in BOOLEAN, u \in BOOLEAN,
        c \in Commits, n \in NotesSpecs, d \in BOOLEAN }

\* inputs that shape the payload
PayloadConfigs ==
    { [Defaults EXCEPT !.platform = p, !.allowUpdates = TRUE,
                       !.generateReleaseNotes = n, !.name = nm, !.body = b,
                       !.draft = TRUE, !.prerelease = TRUE,
                       !.omitName = o[1], !.omitBody = o[2],
                       !.omitNameDuringUpdate = o[3], !.omitBodyDuringUpdate = o[4],
                       !.omitDraftDuringUpdate = o[5],
                       !.omitPrereleaseDuringUpdate = o[6]] :
        p \in Platforms, n \in BOOLEAN, nm \in Names,
        b \in BodyTexts, o \in [1..6 -> BOOLEAN] }

\* inputs and environment the tag is resolved from
TagConfigs ==
    { [Defaults EXCEPT !.platform = p, !.tag = t, !.githubRef = g, !.giteaRef = e] :
        p \in Platforms, t \in {"", "v1.0.0"}, g \in Refs, e \in Refs }

\* the self-hosted platform with and without commit SHAs in the environment
ShaConfigs ==
    { [Defaults EXCEPT !.platform = "gitea", !.commit = c,
                       !.githubSha = g, !.giteaSha = e] :
        c \in Commits, g \in {"", "sha-github"}, e \in {"", "sha-gitea"} }

\* artifact patterns: overlapping ones, a directory, a path that vanishes,
\* and one that matches nothing
ArtifactPatterns ==
    { << <<"dist", "*">>, <<"dist", "a.bin">>, <<"b.bin">> >>,
      << <<"dist">>, <<"b.bin">> >>,
      << <<"tmp.bin">>, <<"dist", "a.bin">> >>,
      << <<"none.bin">> >> }

\* inputs of the asset reconciliation; the configurations that skip an
\* existing release also name a commit
AssetConfigs ==
    { [Defaults EXCEPT !.platform = p, !.allowUpdates = TRUE,
                       !.skipIfReleaseExists = s,
                       !.commit = IF s THEN "abc123" ELSE "", !.artifacts = a,
                       !.removeArtifacts = rm, !.replacesArtifacts = rp,
                       !.artifactErrorsFailBuild = f,
                       !.skipCertificateCheck = k] :
        p \in Platforms, s \in BOOLEAN, a \in ArtifactPatterns, rm \in BOOLEAN,
        rp \in BOOLEAN, f \in BOOLEAN, k \in BOOLEAN }

\* a release the backend holds before the first invocation
Held(id, tag, draft, prerelease, indexed, assets) ==
    [id |-> id, tag_name |-> tag, name |-> "Old name", body |-> "Old body",
     draft |-> draft, prerelease |-> prerelease, indexed |-> indexed,
     assets |-> assets]

OldAsset == [id |-> 7, name |-> "a.bin", browser_download_url |-> <<"download", "a.bin">>]

OtherAsset == [id |-> 8, name |-> "c.bin", browser_download_url |-> <<"download", "c.bin">>]

Other == Held(1, OtherTag, FALSE, FALSE, TRUE, <<>>)

Backends ==
    { <<>>,
      <<Other>>,
      <<Held(2, Tag, FALSE, FALSE, TRUE, <<OldAsset>>), Other>>,
      <<Held(2, Tag, FALSE, TRUE, TRUE, <<>>)>>,
      <<Other, Held(2, Tag, TRUE, FALSE, TRUE, <<OldAsset>>)>>,
      <<Held(2, Tag, TRUE, TRUE, FALSE, <<>>)>> }

\* a published release implies its tag; otherwise the tag may or may not exist
TagRefsOf(rs) ==
    IF \E i \in 1..Len(rs) : rs[i].tag_name = Tag /\ ~rs[i].draft
    THEN {TRUE} ELSE BOOLEAN

FreshRun ==
    /\ pc = "getTag"
    /\ attempt = 0
    /\ existing = Null
    /\ payload = Null
    /\ release = Null
    /\ error = NoError
    /\ calls = <<>>
    /\ http = <<>>
    /\ outputs = Null
    /\ failed = NoError
    /\ todo = <<>>
    /\ uploaded = EmptyMap

\* the backends the commit slice runs against: no release, or a draft one
ShaBackends ==
    { <<>>, <<Held(2, Tag, TRUE, FALSE, TRUE, <<>>)>> }

\* the backends the asset slice runs against: no release, or one with assets
AssetBackends ==
    { <<>>, <<Held(2, Tag, FALSE, FALSE, TRUE, <<OldAsset, OtherAsset>>)>> }

\* the backends the payload slice runs against
PayloadBackends ==
    { <<>>, <<Held(2, Tag, FALSE, FALSE, TRUE, <<>>), Other>> }

Init ==
    /\ \/ /\ cfg \in ControlConfigs
          /\ releases \in Backends
          /\ tagRefs \in TagRefsOf(releases)
       \/ /\ cfg \in PayloadConfigs
          /\ releases \in PayloadBackends
          /\ tagRefs = TRUE
       \/ /\ cfg \in TagConfigs
          /\ releases \in PayloadBackends
          /\ tagRefs = TRUE
       \/ /\ cfg \in ShaConfigs
          /\ releases \in ShaBackends
          /\ tagRefs \in TagRefsOf(releases)
       \/ /\ cfg \in AssetConfigs
          /\ releases \in AssetBackends
          /\ tagRefs = TRUE
    /\ runs = 1
    /\ firstRun = Null
    /\ inflight = {}
    /\ FreshRun

-----------------------------------------------------------------------------
(* Steps shared by the actions *)

Call(op) == calls' = Append(calls, op)
\* what a step has put in flight: the provider call it made (or went on
\* with), pending on the first of the requests the step sends
Issued ==
    IF Len(http') > Len(http)
    THEN {[call |-> Len(calls'), request |-> Len(http) + 1, last |-> Len(http')]}
    ELSE IF Len(calls') > Len(calls)
    THEN {[call |-> Len(calls'), request |-> 0, last |-> 0]}
    ELSE {}
Get(ep) == [method |-> "GET", ep |-> ep]
Send(method, ep, body) == [method |-> method, ep |-> ep, body |-> body]
\* a request whose path names a release or an asset
On(req, id) == req @@ [id |-> id]
\* this.dispatcher: an agent that does not verify certificates, if requested
Dispatcher ==
    IF cfg.skipCertificateCheck THEN [rejectUnauthorized |-> FALSE] ELSE Null

\* BaseProvider.buildFetchOptions
buildFetchOptions(options) ==
    options @@ Field(Dispatcher # Null, "dispatcher", Dispatcher)

\* the options fetch is called with: the primary provider passes them
\* through buildFetchOptions, the self-hosted provider passes them as they are
Fetch(options) ==
    IF cfg.platform = "github" THEN buildFetchOptions(options) ELSE options

Requests(rs) == http' = http \o [i \in 1..Len(rs) |-> Fetch(rs[i])]
\* a request together with the response it got
Answered(req, resp) == req @@ [answer |-> resp]
\* a request sent after the provider waited ms milliseconds
\* (await new Promise((resolve) => setTimeout(resolve, ms)))
After(req, ms) == req @@ [after |-> ms]

\* error.message
\* (request() throws `HTTP ${status} ${statusText}: ${errorText}`)
Message(e) ==
    IF Has(e, "msg") THEN [text |-> e.msg]
    ELSE [http |-> e.status, text404 |-> e.text404]

\* a faulty variant that reports every failure as unknown
setFailed_Unknown(e) == [text |-> "Unknown error occurred"]

\* an error leaves execute; run() reports it: core.setFailed(error.message)
\* (every value the providers and the manager throw is an Error)
setFailed(e) == Message(e)

Fails(e) ==
    /\ pc' = "failed"
    /\ error' = e
    /\ failed' = setFailed(e)

-----------------------------------------------------------------------------
(* execute: the existence check *)

\* const tag = this.getTag(), before anything is asked of the provider
Execute_GetTag ==
    /\ pc = "getTag"
    /\ IF getTag(cfg).kind = "throw"
       THEN Fails(getTag(cfg).err)
       ELSE pc' = "start" /\ UNCHANGED <<error, failed>>
    /\ UNCHANGED <<cfg, attempt, existing, payload, release, calls, http, outputs,
                   todo, uploaded, releases, tagRefs, runs, firstRun>>

\* execute calls provider.getReleaseByTag(tag); the provider issues the
\* direct tag request
Execute_GetReleaseByTag ==
    /\ pc = "start"
    /\ Call([op |-> "getReleaseByTag", tag |-> Tag])
    /\ \E resp \in TagEndpoint :
         LET out == IF cfg.platform = "github" THEN GitHubDirectLookup(resp)
                    ELSE GiteaGetReleaseByTag(resp)
         IN  /\ Requests(<<Answered(Get("releases/tags"), resp)>>)
             /\ \/ /\ out.kind = "return"
                   /\ existing' = out.value
                   /\ pc' = "found"
                   /\ UNCHANGED <<error, failed>>
                \/ /\ out.kind = "fallback"
                   /\ pc' = "listReleases"
                   /\ UNCHANGED <<existing, error, failed>>
                \/ /\ out.kind = "throw"
                   /\ Fails(out.err)
                   /\ UNCHANGED existing
    /\ attempt' = 0
    /\ UNCHANGED <<cfg, payload, release, outputs, todo, uploaded, releases,
                   tagRefs, runs, firstRun>>

\* GitHubProvider.getReleaseByTag: one attempt of the draft-lookup fallback
\* (attempts after the first wait retryDelay before the request)
GitHub_ListReleases ==
    /\ pc = "listReleases"
    /\ \E resp \in ListEndpoint :
         LET out == GitHubListAttempt(resp, attempt)
             req == IF attempt > 0 THEN After(Get("releases"), retryDelay)
                    ELSE Get("releases")
         IN  /\ Requests(<<Answered(req, resp)>>)
             /\ \/ /\ out.kind = "return"
                   /\ existing' = out.value
                   /\ pc' = "found"
                   /\ attempt' = 0
                \/ /\ out.kind = "retry"
                   /\ attempt' = attempt + 1
                   /\ UNCHANGED <<existing, pc>>
    /\ UNCHANGED <<cfg, payload, release, error, calls, outputs, failed, todo,
                   uploaded, releases, tagRefs, runs, firstRun>>

\* the backend finishes indexing a release it holds
Backend_Indexes ==
    /\ pc \notin {"done", "failed"}
    /\ \E i \in 1..Len(releases) :
         /\ ~releases[i].indexed
         /\ releases' = [releases EXCEPT ![i].indexed = TRUE]
    /\ UNCHANGED <<cfg, pc, attempt, existing, payload, release, error, calls,
                   http, outputs, failed, todo, uploaded, tagRefs, runs, firstRun,
                   inflight>>

-----------------------------------------------------------------------------
(* Backend: tags and release mutation *)

Unprocessable == [status |-> 422, text404 |-> FALSE]
Conflict == [status |-> 409, text404 |-> FALSE]

\* errors of a mutating request that the backend did not carry out
Rejections == HttpErrors \ {NotFound}

\* createTag of either provider against the backend: the requests issued, the
\* error thrown (NoError if none) and whether the tag ref was created.
\* A tag that exists already cannot be created again.
GitHubCreateTag ==
    LET ref == Send("POST", "git/refs", [ref |-> <<"refs/tags/", Tag>>, sha |-> cfg.commit])
        obj == Send("POST", "git/tags", [tag |-> Tag, object |-> cfg.commit])
        upd == Send("PATCH", "git/refs/tags", [sha |-> "tagsha"])
    IN  {[reqs |-> <<ref>>, err |-> e, created |-> FALSE] :
            e \in IF tagRefs THEN {Unprocessable} ELSE Rejections}
        \cup (IF tagRefs THEN {} ELSE
              {[reqs |-> <<ref, obj>>, err |-> e, created |-> TRUE] : e \in Rejections}
              \cup {[reqs |-> <<ref, obj, upd>>, err |-> e, created |-> TRUE] :
                        e \in Rejections \cup {NoError}})

GiteaCreateTag(commit) ==
    LET req == Send("POST", "tags", [tag_name |-> Tag, target |-> commit])
    IN  {[reqs |-> <<Answered(req, ErrResp(e))>>, err |-> e, created |-> FALSE] :
            e \in IF tagRefs THEN {Conflict} ELSE Rejections}
        \cup (IF tagRefs THEN {} ELSE
              {[reqs |-> <<Answered(req, OkResp([name |-> Tag]))>>,
                err |-> NoError, created |-> TRUE]})

createTag(commit) ==
    IF cfg.platform = "github" THEN GitHubCreateTag ELSE GiteaCreateTag(commit)

MaxOf(S) == IF S = {} THEN 0 ELSE CHOOSE m \in S : \A x \in S : x <= m

NewId == 1 + MaxOf({releases[i].id : i \in 1..Len(releases)})

\* the release the backend makes of the body of a creation request
Created(body, indexed) ==
    [id |-> NewId, tag_name |-> body.tag_name, name |-> body.name,
     body |-> body.body, draft |-> body.draft, prerelease |-> body.prerelease,
     indexed |-> indexed, assets |-> <<>>]

\* the primary platform keeps published releases unique per tag (drafts are
\* not bound to the tag yet); the self-hosted platform keeps one release per tag
CreationRefused ==
    \/ Len(releases) >= MaxReleases
    \/ \E i \in 1..Len(releases) :
         /\ releases[i].tag_name = Tag
         /\ (cfg.platform = "github" => ~releases[i].draft)

\* index of the release with the given id string, 0 if the backend holds none
IndexOfId(id) ==
    IF \E i \in 1..Len(releases) : ToString(releases[i].id) = id
    THEN CHOOSE i \in 1..Len(releases) : ToString(releases[i].id) = id
    ELSE 0

\* the release r after a PATCH with the given body
Patched(r, body) == [f \in DOMAIN r |-> IF f \in DOMAIN body THEN body[f] ELSE r[f]]

-----------------------------------------------------------------------------
(* execute: from the existence check to the create-or-update dispatch *)

\* a faulty variant of the skip test that forgets the draft exception
SkipCondition_AnyRelease(c, ex) ==
    ex # Null /\ c.skipIfReleaseExists

\* existingRelease && this.config.skipIfReleaseExists && !existingRelease.draft
SkipCondition(c, ex) ==
    ex # Null /\ c.skipIfReleaseExists /\ ~TruthyB(ex, "draft")

\* a faulty variant that creates the tag also when a release was found
TagCondition_AnyRelease(c, ex) == c.commit # ""

\* this.config.commit && !existingRelease
TagCondition(c, ex) == c.commit # "" /\ ex = Null

\* this.config.generateReleaseNotes && !existingRelease && !releaseConfig.body
NotesCondition(c, ex, config) ==
    c.generateReleaseNotes /\ ex = Null /\ ~TruthyS(config, "body")

\* where execute goes once releaseConfig is prepared
AfterPrepare(config) ==
    IF NotesCondition(cfg, existing, config) THEN "generateNotes" ELSE "dispatch"

\* where execute goes once the release is created or updated
AfterRelease == IF cfg.artifacts # <<>> THEN "assets" ELSE "outputs"

\* the short-circuit: return existingRelease
Execute_Skip ==
    /\ pc = "found"
    /\ SkipCondition(cfg, existing)
    /\ release' = existing
    /\ pc' = "done"
    /\ UNCHANGED <<cfg, attempt, existing, payload, error, calls, http, outputs,
                   failed, todo, uploaded, releases, tagRefs, runs, firstRun>>

\* no short-circuit and no tag to create: the updateOnlyUnreleased branch only
\* logs; prepareReleaseConfig builds releaseConfig
Execute_Prepare ==
    /\ pc = "found"
    /\ ~SkipCondition(cfg, existing)
    /\ ~TagCondition(cfg, existing)
    /\ IF PrepareError(cfg, existing) = NoError
       THEN /\ payload' = prepareReleaseConfig(cfg, existing)
            /\ pc' = AfterPrepare(payload')
            /\ UNCHANGED <<error, failed>>
       ELSE /\ Fails(PrepareError(cfg, existing))
            /\ UNCHANGED payload
    /\ UNCHANGED <<cfg, attempt, existing, release, calls, http, outputs,
                   todo, uploaded, releases, tagRefs, runs, firstRun>>

\* no short-circuit, a commit is configured and no release was found:
\* provider.createTag, then prepareReleaseConfig
Execute_CreateTag ==
    /\ pc = "found"
    /\ ~SkipCondition(cfg, existing)
    /\ TagCondition(cfg, existing)
    /\ Call([op |-> "createTag", tag |-> Tag, commit |-> cfg.commit])
    /\ \E run \in createTag(cfg.commit) :
         /\ Requests(run.reqs)
         /\ tagRefs' = (tagRefs \/ run.created)
         /\ IF run.err # NoError
            THEN /\ Fails(run.err)
                 /\ UNCHANGED payload
            ELSE IF PrepareError(cfg, existing) # NoError
            THEN /\ Fails(PrepareError(cfg, existing))
                 /\ UNCHANGED payload
            ELSE /\ payload' = prepareReleaseConfig(cfg, existing)
                 /\ pc' = AfterPrepare(payload')
                 /\ UNCHANGED <<error, failed>>
    /\ UNCHANGED <<cfg, attempt, existing, release, outputs, todo, uploaded,
                   releases, runs, firstRun>>

GeneratedNotes == {"", "Generated notes"}

\* how the notes request fails in the model
NotesFailures == {[status |-> 500, text404 |-> FALSE]}

\* generateReleaseNotes of either provider: the requests issued and the
\* notes returned, or the error thrown
generateReleaseNotes ==
    IF cfg.platform = "github"
    THEN LET req == Send("POST", "releases/generate-notes", [tag_name |-> Tag])
         IN  {[reqs |-> <<Answered(req, OkResp([body |-> n]))>>, err |-> NoError,
               notes |-> n] : n \in GeneratedNotes}
             \cup {[reqs |-> <<Answered(req, ErrResp(e))>>, err |-> e, notes |-> ""] :
                     e \in NotesFailures}
    ELSE {[reqs |-> <<>>, err |-> NoError, notes |-> ""]}

\* a faulty variant that takes the notes even when they are empty
WithNotes_Always(config, run) ==
    IF run.err = NoError THEN ("body" :> run.notes) @@ config ELSE config

\* releaseConfig after the notes step: a failure is caught, empty notes are ignored
WithNotes(config, run) ==
    IF run.err = NoError /\ run.notes # "" THEN ("body" :> run.notes) @@ config
    ELSE config

Execute_GenerateReleaseNotes ==
    /\ pc = "generateNotes"
    /\ Call([op |-> "generateReleaseNotes", tag |-> Tag])
    /\ \E run \in generateReleaseNotes :
         /\ Requests(run.reqs)
         /\ payload' = WithNotes(payload, run)
    /\ pc' = "dispatch"
    /\ UNCHANGED <<cfg, attempt, existing, release, error, outputs, failed, todo,
                   uploaded, releases, tagRefs, runs, firstRun>>

-----------------------------------------------------------------------------
(* execute: create or update *)

\* what a POST to the releases collection can do: the releases the backend
\* holds afterwards and its response
PostRelease(body) ==
    {[held |-> releases, resp |-> ErrResp(e)] :
        e \in IF CreationRefused THEN Rejections \cup {Unprocessable} ELSE Rejections}
    \cup (IF CreationRefused THEN {} ELSE
          {[held |-> <<Created(body, idx)>> \o releases,
            resp |-> OkResp(ApiRelease(Created(body, idx)))] : idx \in BOOLEAN})

\* what a PATCH of release id can do
PatchRelease(id, body) ==
    LET i == IndexOfId(id)
    IN  {[held |-> releases, resp |-> ErrResp(e)] :
            e \in IF i = 0 THEN {NotFound} \cup Rejections ELSE Rejections}
        \cup (IF i = 0 THEN {} ELSE
              {[held |-> [releases EXCEPT ![i] = Patched(@, body)],
                resp |-> OkResp(ApiRelease(Patched(releases[i], body)))]})

\* GitHubProvider.createRelease: one POST
GitHub_CreateRelease ==
    /\ pc = "dispatch"
    /\ cfg.platform = "github"
    /\ ~Updating(cfg, existing)
    /\ Call([op |-> "createRelease", config |-> payload])
    /\ LET body == GitHubCreateBody(payload)
       IN  \E o \in PostRelease(body) :
                /\ Requests(<<Answered(Send("POST", "releases", body), o.resp)>>)
                /\ releases' = o.held
                /\ IF o.resp.ok
                   THEN /\ release' = GitHubResult(o.resp.data, EmptyMap)
                        /\ tagRefs' = (tagRefs \/ ~body.draft)
                        /\ pc' = AfterRelease
                        /\ UNCHANGED <<error, failed>>
                   ELSE /\ Fails(o.resp.err)
                        /\ UNCHANGED <<release, tagRefs>>
    /\ UNCHANGED <<cfg, attempt, existing, payload, outputs, todo, uploaded,
                   runs, firstRun>>

\* GitHubProvider.updateRelease: the result built from the response
GitHubUpdateResult(releaseId, data) == GitHubResult(data, EmptyMap)

\* GiteaProvider.updateRelease: the result built from the response, which
\* may have an empty body
GiteaUpdateResult(releaseId, data) ==
    IF ~Has(data, "id")
    THEN [id |-> releaseId,
          html_url |-> OrElse(data, "html_url", ""),
          upload_url |-> OrElse(data, "upload_url", ""),
          tarball_url |-> OrElse(data, "tarball_url", ""),
          zipball_url |-> OrElse(data, "zipball_url", ""),
          assets |-> EmptyMap]
    ELSE GiteaResult(data, EmptyMap)

\* the self-hosted backend may answer a successful mutation with an empty body
Bodies(resp) ==
    IF resp.ok /\ cfg.platform = "gitea" THEN {resp, OkResp(EmptyRec)} ELSE {resp}

\* provider.updateRelease(existingRelease.id, releaseConfig): one PATCH
Provider_UpdateRelease ==
    /\ pc = "dispatch"
    /\ Updating(cfg, existing)
    /\ Call([op |-> "updateRelease", id |-> existing.id, config |-> payload])
    /\ LET body == UpdateBody(cfg.platform, payload)
       IN  \E o \in PatchRelease(existing.id, body) : \E resp \in Bodies(o.resp) :
                /\ Requests(<<Answered(On(Send("PATCH", "releases/{id}", body), existing.id), resp)>>)
                /\ releases' = o.held
                /\ IF resp.ok
                   THEN /\ release' = IF cfg.platform = "github"
                                      THEN GitHubUpdateResult(existing.id, resp.data)
                                      ELSE GiteaUpdateResult(existing.id, resp.data)
                        /\ pc' = AfterRelease
                        /\ UNCHANGED <<error, failed>>
                   ELSE /\ Fails(resp.err)
                        /\ UNCHANGED release
    /\ UNCHANGED <<cfg, attempt, existing, payload, outputs, todo, uploaded,
                   tagRefs, runs, firstRun>>

-----------------------------------------------------------------------------
(* GiteaProvider.createRelease: tag first, then the release, then confirmation *)

\* GITEA_RELEASE_LOOKUP_MAX_RETRIES as set in the environment of the model

HeadSha == "headsha"

ConfirmError == [msg |-> "Gitea createRelease returned no body and release could not be fetched by tag after retries."]
NoDefaultBranch == [msg |-> "Could not determine default branch from repository"]
NoHeadSha == [msg |-> "Could not get HEAD SHA for branch"]

\* GiteaProvider.tagExists: what it does with the response of the ref lookup
tagExists(resp) ==
    IF resp.ok THEN Return(TRUE)
    ELSE IF Includes404(resp.err) THEN Return(FALSE)
    ELSE Throw(resp.err)

\* GET .../git/refs/tags/{tag}
TagRefEndpoint ==
    (IF tagRefs THEN {OkResp([ref |-> Tag])} ELSE {})
        \cup {ErrResp(e) : e \in FailuresOf(tagRefs) \cup Malformed}

\* process.env.GITHUB_SHA || process.env.GITEA_SHA
EnvSha == IF cfg.githubSha # "" THEN cfg.githubSha ELSE cfg.giteaSha

\* a faulty variant that prefers the SHA of the environment to config.commit
CommitSha_EnvFirst(config) ==
    IF EnvSha # "" THEN EnvSha
    ELSE IF TruthyS(config, "commit") THEN config.commit
    ELSE HeadSha

\* the commit the tag is created at: config.commit, else the SHA of the
\* environment, else the default branch HEAD
CommitSha(config) ==
    IF TruthyS(config, "commit") THEN config.commit
    ELSE IF EnvSha # "" THEN EnvSha
    ELSE HeadSha

\* if (!commitSha) after config.commit and the environment were tried
NeedsDefaultBranch(config) == ~TruthyS(config, "commit") /\ EnvSha = ""

Gitea_TagExists ==
    /\ pc = "dispatch"
    /\ cfg.platform = "gitea"
    /\ ~Updating(cfg, existing)
    /\ Call([op |-> "createRelease", config |-> payload])
    /\ \E resp \in TagRefEndpoint :
         LET out == tagExists(resp)
         IN  /\ Requests(<<Answered(Get("git/refs/tags"), resp)>>)
             /\ IF out.kind = "throw"
                THEN Fails(out.err)
                ELSE /\ pc' = IF out.value THEN "postRelease"
                              ELSE IF NeedsDefaultBranch(payload) THEN "defaultBranch"
                              ELSE "giteaCreateTag"
                     /\ UNCHANGED <<error, failed>>
    /\ UNCHANGED <<cfg, attempt, existing, payload, release, outputs, todo,
                   uploaded, releases, tagRefs, runs, firstRun>>

\* GiteaProvider.getDefaultBranchSha: repository metadata, then the branch ref
getDefaultBranchSha ==
    LET repo == Get("repo")
        head == Get("git/refs/heads")
        named == Answered(repo, OkResp([default_branch |-> "main"]))
    IN  {[reqs |-> <<Answered(repo, ErrResp(e))>>, err |-> e] : e \in HttpErrors}
        \cup {[reqs |-> <<Answered(repo, OkResp(EmptyRec))>>, err |-> NoDefaultBranch]}
        \cup {[reqs |-> <<named, Answered(head, ErrResp(e))>>, err |-> e] :
                e \in HttpErrors}
        \cup {[reqs |-> <<named, Answered(head, OkResp(EmptyRec))>>, err |-> NoHeadSha]}
        \cup {[reqs |-> <<named, Answered(head, OkResp([object |-> [sha |-> HeadSha]]))>>,
                err |-> NoError]}

Gitea_GetDefaultBranchSha ==
    /\ pc = "defaultBranch"
    /\ \E run \in getDefaultBranchSha :
         /\ Requests(run.reqs)
         /\ IF run.err = NoError
            THEN pc' = "giteaCreateTag" /\ UNCHANGED <<error, failed>>
            ELSE Fails(run.err)
    /\ UNCHANGED <<cfg, attempt, existing, payload, release, calls, outputs, todo,
                   uploaded, releases, tagRefs, runs, firstRun>>

\* this.createTag(config.tag, commitSha, ...) inside createRelease
Gitea_CreateTag ==
    /\ pc = "giteaCreateTag"
    /\ \E run \in GiteaCreateTag(CommitSha(payload)) :
         /\ Requests(run.reqs)
         /\ tagRefs' = (tagRefs \/ run.created)
         /\ IF run.err = NoError
            THEN pc' = "postRelease" /\ UNCHANGED <<error, failed>>
            ELSE Fails(run.err)
    /\ UNCHANGED <<cfg, attempt, existing, payload, release, calls, outputs, todo,
                   uploaded, releases, runs, firstRun>>

DefaultMaxRetries == 10
DefaultBaseDelayMs == 500
DefaultMaxDelayMs == 8000

Min(a, b) == IF a <= b THEN a ELSE b
Max(a, b) == IF a >= b THEN a ELSE b

RECURSIVE Pow2(_)
\* Math.pow(2, n)
Pow2(n) == IF n <= 0 THEN 1 ELSE 2 * Pow2(n - 1)

NaN == [nan |-> TRUE]
Number(n) == [nan |-> FALSE, value |-> n]

RECURSIVE SkipSpaces(_)
SkipSpaces(raw) ==
    IF raw # <<>> /\ Head(raw) = " " THEN SkipSpaces(Tail(raw)) ELSE raw

IsDigit(c) == \E d \in 1..10 : DigitChars[d] = c
DigitValue(c) == (CHOOSE d \in 1..10 : DigitChars[d] = c) - 1

RECURSIVE ParseDigits(_, _)
\* the value of the leading digits of raw, after acc
ParseDigits(raw, acc) ==
    IF raw = <<>> \/ ~IsDigit(Head(raw)) THEN acc
    ELSE ParseDigits(Tail(raw), 10 * acc + DigitValue(Head(raw)))

\* Number.parseInt(raw, 10): leading white space, a sign, then the digits up
\* to the first character that is none; NaN without a digit
parseInt(raw) ==
    LET t == SkipSpaces(raw)
        signed == t # <<>> /\ Head(t) \in {"+", "-"}
        u == IF signed THEN Tail(t) ELSE t
    IN  IF u = <<>> \/ ~IsDigit(Head(u)) THEN NaN
        ELSE Number(IF signed /\ Head(t) = "-" THEN 0 - ParseDigits(u, 0)
                    ELSE ParseDigits(u, 0))

\* GiteaProvider.readEnvNumber
readEnvNumber(name, fallback) ==
    IF ~Has(cfg.env, name) \/ cfg.env[name] = <<>> THEN fallback
    ELSE IF parseInt(cfg.env[name]).nan THEN fallback
    ELSE Max(parseInt(cfg.env[name]).value, 0)

\* maxRetries, baseDelayMs and maxDelayMs of findReleaseByTagWithRetries
LookupMaxRetries == readEnvNumber("GITEA_RELEASE_LOOKUP_MAX_RETRIES", DefaultMaxRetries)
LookupBaseDelayMs == readEnvNumber("GITEA_RELEASE_LOOKUP_BASE_DELAY_MS", DefaultBaseDelayMs)
LookupMaxDelayMs == readEnvNumber("GITEA_RELEASE_LOOKUP_MAX_DELAY_MS", DefaultMaxDelayMs)

\* a faulty variant that doubles the delay without a ceiling
delayMs_NoCeiling(n, baseDelayMs, maxDelayMs) ==
    baseDelayMs * Pow2(n - 1)

\* Math.min(baseDelayMs * Math.pow(2, attempt - 1), maxDelayMs), attempt n
delayMs(n, baseDelayMs, maxDelayMs) ==
    Min(baseDelayMs * Pow2(n - 1), maxDelayMs)

\* the POST of the release; an empty body starts the confirmation polling
Gitea_PostRelease ==
    /\ pc = "postRelease"
    /\ LET body == GiteaCreateBody(payload)
       IN  \E o \in PostRelease(body) : \E resp \in Bodies(o.resp) :
                /\ Requests(<<Answered(Send("POST", "releases", body), resp)>>)
                /\ releases' = o.held
                /\ IF ~resp.ok
                   THEN Fails(resp.err) /\ UNCHANGED <<release, attempt>>
                   ELSE IF Has(resp.data, "id")
                   THEN /\ release' = GiteaResult(resp.data, EmptyMap)
                        /\ pc' = AfterRelease
                        /\ UNCHANGED <<error, failed, attempt>>
                   ELSE IF LookupMaxRetries = 0
                   THEN Fails(ConfirmError) /\ UNCHANGED <<release, attempt>>
                   ELSE /\ pc' = "confirmByTag"
                        /\ attempt' = 1
                        /\ UNCHANGED <<error, failed, release>>
    /\ UNCHANGED <<cfg, existing, payload, calls, outputs, todo, uploaded,
                   tagRefs, runs, firstRun>>

\* a request of the confirmation polling with what the lookup gave back to
\* findReleaseByTagWithRetries: the id of the release it built, "" for null
Yielded(req, result) ==
    req @@ [yields |-> IF result = Null THEN "" ELSE result.id]

\* findReleaseByTagWithRetries: after the delay, the direct lookup of an attempt
Gitea_ConfirmByTag ==
    /\ pc = "confirmByTag"
    /\ \E resp \in TagEndpoint :
         LET out == GiteaGetReleaseByTag(resp)
             req == After(Get("releases/tags"),
                          delayMs(attempt, LookupBaseDelayMs, LookupMaxDelayMs))
         IN  /\ Requests(<<IF out.kind = "throw" THEN req
                            ELSE Yielded(req, out.value)>>)
             /\ IF out.kind = "throw"
                THEN Fails(out.err) /\ UNCHANGED release
                ELSE IF out.value # Null
                THEN /\ release' = out.value
                     /\ pc' = AfterRelease
                     /\ UNCHANGED <<error, failed>>
                ELSE /\ pc' = "confirmInList"
                     /\ UNCHANGED <<error, failed, release>>
    /\ UNCHANGED <<cfg, attempt, existing, payload, calls, outputs, todo,
                   uploaded, releases, tagRefs, runs, firstRun>>

\* a faulty variant that builds a result without id when the list has no match
findReleaseInList_Partial(resp) ==
    IF ~resp.ok THEN Null
    ELSE LET i == FindByTag(resp.data)
         IN  IF i = 0
             THEN [id |-> "", html_url |-> "", upload_url |-> "", tarball_url |-> "",
                   zipball_url |-> "", assets |-> EmptyMap, draft |-> FALSE,
                   prerelease |-> FALSE]
             ELSE GiteaResult(resp.data[i], AssetMap(resp.data[i].assets))

\* GiteaProvider.findReleaseInList: what it does with the response
findReleaseInList(resp) ==
    IF ~resp.ok THEN Null
    ELSE LET i == FindByTag(resp.data)
         IN  IF i = 0 THEN Null
             ELSE GiteaResult(resp.data[i], AssetMap(resp.data[i].assets))

\* findReleaseByTagWithRetries: the list scan of an attempt
Gitea_ConfirmInList ==
    /\ pc = "confirmInList"
    /\ \E resp \in ListEndpoint :
         LET found == findReleaseInList(resp)
         IN  /\ Requests(<<Yielded(Get("releases"), found)>>)
             /\ IF found # Null
                THEN /\ release' = found
                     /\ pc' = AfterRelease
                     /\ UNCHANGED <<error, failed, attempt>>
                ELSE IF attempt < LookupMaxRetries
                THEN /\ attempt' = attempt + 1
                     /\ pc' = "confirmByTag"
                     /\ UNCHANGED <<error, failed, release>>
                ELSE Fails(ConfirmError) /\ UNCHANGED <<release, attempt>>
    /\ UNCHANGED <<cfg, existing, payload, calls, outputs, todo, uploaded,
                   releases, tagRefs, runs, firstRun>>

-----------------------------------------------------------------------------
(* execute: asset reconciliation and outputs *)

\* the runner's disk when the patterns are expanded, in directory order; a
\* path is its sequence of segments
Disk == << <<"dist">>, <<"dist", "a.bin">>, <<"b.bin">>, <<"tmp.bin">> >>

\* regular files, directories, and paths removed after the expansion
Files == {<<"dist", "a.bin">>, <<"b.bin">>}
Dirs == {<<"dist">>}
Vanished == {<<"tmp.bin">>}

\* fs.existsSync(path) and fs.statSync(path).isFile() in the upload loop
existsSync(path) == path \in Files \cup Dirs
isFile(path) == path \in Files

\* glob(pattern): a literal path matches itself, dir/* the entries of dir
Glob(pattern) ==
    IF pattern[Len(pattern)] = "*"
    THEN SelectSeq(Disk, LAMBDA e :
            /\ Len(e) = Len(pattern)
            /\ SubSeq(e, 1, Len(e) - 1) = SubSeq(pattern, 1, Len(pattern) - 1))
    ELSE SelectSeq(Disk, LAMBDA e : e = pattern)

RECURSIVE Expand(_)
Expand(patterns) ==
    IF patterns = <<>> THEN <<>>
    ELSE Glob(Head(patterns)) \o Expand(Tail(patterns))

\* a faulty variant that keeps repeated paths
Unique_Repeats(paths) == paths

\* [...new Set(expandedPaths)]: first occurrences, in order
RECURSIVE Unique(_)
Unique(paths) ==
    IF paths = <<>> THEN <<>>
    ELSE LET init == Unique(SubSeq(paths, 1, Len(paths) - 1))
             last == paths[Len(paths)]
         IN  IF \E i \in 1..Len(init) : init[i] = last THEN init
             ELSE Append(init, last)

UniquePaths == Unique(Expand(cfg.artifacts))

\* path.basename: the last segment
Basename(path) == path[Len(path)]

\* the assets of the release with the given id string, as the backend holds them
AssetsOf(id) == IF IndexOfId(id) = 0 THEN <<>> ELSE releases[IndexOfId(id)].assets

\* data.map(asset => ({id: asset.id.toString(), name, url}))
AssetEntries(as) ==
    [i \in 1..Len(as) |->
        [id |-> ToString(as[i].id), name |-> as[i].name,
         url |-> as[i].browser_download_url]]

\* a faulty variant that numbers the assets of the release found by tag
ObjectEntries_Numbered(as) ==
    LET names == Unique([i \in 1..Len(as) |-> as[i].name])
    IN  [i \in 1..Len(names) |->
            [id |-> ToString(i), name |-> names[i], url |-> AssetMap(as)[names[i]]]]

\* Object.entries(release.assets).map(([name, url]) => ({id: '', name, url}))
\* for the asset map built from the array as: keys in insertion order
ObjectEntries(as) ==
    LET names == Unique([i \in 1..Len(as) |-> as[i].name])
    IN  [i \in 1..Len(names) |->
            [id |-> "", name |-> names[i], url |-> AssetMap(as)[names[i]]]]

\* GiteaProvider.listAssets(identifier), the lookup by tag answering with one
\* of lookups: requests issued, error thrown, assets returned, release found
GiteaListAssets(identifier, lookups) ==
    LET byTag == Get("releases/tags")
        byId == On(Get("releases/{id}"), identifier)
        Run(resp) ==
            LET out == GiteaGetReleaseByTag(resp)
            IN  IF out.kind = "throw"
                THEN {[reqs |-> <<byTag>>, err |-> out.err, assets |-> <<>>,
                       release |-> Null]}
                ELSE IF out.value = Null
                THEN {[reqs |-> <<byTag, byId>>, err |-> e, assets |-> <<>>,
                       release |-> Null] :
                         e \in FailuresOf(IndexOfId(identifier) # 0)}
                     \cup (IF IndexOfId(identifier) = 0 THEN {} ELSE
                           {[reqs |-> <<byTag, byId>>, err |-> NoError,
                             assets |-> AssetEntries(AssetsOf(identifier)),
                             release |-> Null]})
                ELSE {[reqs |-> <<byTag>>, err |-> NoError,
                       assets |-> ObjectEntries(resp.data.assets),
                       release |-> out.value]}
    IN  UNION {Run(resp) : resp \in lookups}

\* what the tag endpoint answers when asked for a release id: no tag of the
\* backend is named like one
IdLookups == {ErrResp(e) : e \in HttpErrors}

\* listAssets of either provider, called with a release id: requests issued,
\* error thrown, assets returned
listAssets(id) ==
    IF cfg.platform = "github"
    THEN LET req == On(Get("releases/{id}/assets"), id)
         IN  {[reqs |-> <<req>>, err |-> e, assets |-> <<>>] :
                 e \in FailuresOf(IndexOfId(id) # 0)}
             \cup (IF IndexOfId(id) = 0 THEN {} ELSE
                   {[reqs |-> <<req>>, err |-> NoError,
                     assets |-> AssetEntries(AssetsOf(id))]})
    ELSE GiteaListAssets(id, IdLookups)

\* a faulty variant that takes every asset for a same-named one
NameMatches_Any(asset) == TRUE

\* assetNames.has(asset.name): the asset is named like a file to upload
NameMatches(asset) ==
    \E i \in 1..Len(UniquePaths) : Basename(UniquePaths[i]) = asset.name

\* a faulty variant that runs the replace-by-name path after the remove-all path
ToDelete_BothPaths(listed) ==
    LET named == SelectSeq(listed, NameMatches)
    IN  IF cfg.removeArtifacts
        THEN listed \o (IF cfg.replacesArtifacts THEN named ELSE <<>>)
        ELSE named

\* a faulty variant that looks at the names on the remove-all path as well
ToDelete_ByName(listed) == SelectSeq(listed, NameMatches)

\* the listed assets that handleAssets deletes
ToDelete(listed) ==
    IF cfg.removeArtifacts THEN listed ELSE SelectSeq(listed, NameMatches)

\* a faulty variant that lists the assets to remove before it looks at what
\* the patterns resolved to
HandleAssets_Resolve_ListsFirst ==
    /\ pc = "assets"
    /\ IF cfg.removeArtifacts \/ cfg.replacesArtifacts
       THEN pc' = "listAssets" /\ todo' = <<>>
       ELSE IF UniquePaths = <<>>
       THEN pc' = "outputs" /\ todo' = <<>>
       ELSE pc' = "upload" /\ todo' = UniquePaths
    /\ UNCHANGED <<cfg, attempt, existing, payload, release, error, calls, http,
                   outputs, failed, uploaded, releases, tagRefs, runs, firstRun>>

\* handleAssets up to the first provider call: nothing resolved, nothing to do
HandleAssets_Resolve ==
    /\ pc = "assets"
    /\ IF UniquePaths = <<>>
       THEN pc' = "outputs" /\ todo' = <<>>
       ELSE IF cfg.removeArtifacts \/ cfg.replacesArtifacts
       THEN pc' = "listAssets" /\ todo' = <<>>
       ELSE pc' = "upload" /\ todo' = UniquePaths
    /\ UNCHANGED <<cfg, attempt, existing, payload, release, error, calls, http,
                   outputs, failed, uploaded, releases, tagRefs, runs, firstRun>>

\* provider.listAssets(release.id): not inside a try block
HandleAssets_List ==
    /\ pc = "listAssets"
    /\ Call([op |-> "listAssets", id |-> release.id])
    /\ \E run \in listAssets(release.id) :
         /\ Requests(run.reqs)
         /\ IF run.err = NoError
            THEN /\ todo' = ToDelete(run.assets)
                 /\ pc' = "deleteAssets"
                 /\ UNCHANGED <<error, failed>>
            ELSE Fails(run.err) /\ UNCHANGED todo
    /\ UNCHANGED <<cfg, attempt, existing, payload, release, outputs, uploaded,
                   releases, tagRefs, runs, firstRun>>

\* the backend without the asset with the given id string
WithoutAsset(assetId) ==
    [i \in 1..Len(releases) |->
        [releases[i] EXCEPT !.assets =
            SelectSeq(@, LAMBDA a : ToString(a.id) # assetId)]]

AssetHeld(assetId) ==
    \E i \in 1..Len(releases) : \E j \in 1..Len(releases[i].assets) :
        ToString(releases[i].assets[j].id) = assetId

\* provider.deleteAsset(asset.id) for the next listed asset
HandleAssets_Delete ==
    /\ pc = "deleteAssets"
    /\ todo # <<>>
    /\ Call([op |-> "deleteAsset", id |-> Head(todo).id])
    /\ LET req == On([method |-> "DELETE", ep |-> "assets/{id}"], Head(todo).id)
       IN  \/ /\ AssetHeld(Head(todo).id)
              /\ Requests(<<Answered(req, OkResp(EmptyRec))>>)
              /\ releases' = WithoutAsset(Head(todo).id)
              /\ todo' = Tail(todo)
              /\ UNCHANGED <<pc, error, failed>>
           \/ /\ \E e \in FailuresOf(AssetHeld(Head(todo).id)) :
                   /\ Requests(<<Answered(req, ErrResp(e))>>)
                   /\ IF cfg.artifactErrorsFailBuild
                      THEN Fails(e) /\ UNCHANGED todo
                      ELSE todo' = Tail(todo) /\ UNCHANGED <<pc, error, failed>>
              /\ UNCHANGED releases
    /\ UNCHANGED <<cfg, attempt, existing, payload, release, outputs, uploaded,
                   tagRefs, runs, firstRun>>

\* all deletions attempted: the upload loop starts
HandleAssets_Deleted ==
    /\ pc = "deleteAssets"
    /\ todo = <<>>
    /\ pc' = "upload"
    /\ todo' = UniquePaths
    /\ UNCHANGED <<cfg, attempt, existing, payload, release, error, calls, http,
                   outputs, failed, uploaded, releases, tagRefs, runs, firstRun>>

NewAssetId == 1 + MaxOf({8} \cup UNION {{releases[i].assets[j].id : j \in 1..Len(releases[i].assets)} :
                                        i \in 1..Len(releases)})

NameTaken(id, name) ==
    \E j \in 1..Len(AssetsOf(id)) : AssetsOf(id)[j].name = name

NotFoundOnDisk == [msg |-> "Asset file not found", text404 |-> FALSE]
NotAFile == [msg |-> "Asset path is not a file", text404 |-> FALSE]

\* the upload loop at a resolved path that is missing or not a regular file
HandleAssets_Invalid ==
    /\ pc = "upload"
    /\ todo # <<>>
    /\ ~(existsSync(Head(todo)) /\ isFile(Head(todo)))
    /\ IF cfg.artifactErrorsFailBuild
       THEN /\ Fails(IF ~existsSync(Head(todo)) THEN NotFoundOnDisk ELSE NotAFile)
            /\ UNCHANGED todo
       ELSE todo' = Tail(todo) /\ UNCHANGED <<pc, error, failed>>
    /\ UNCHANGED <<cfg, attempt, existing, payload, release, calls, http, outputs,
                   uploaded, releases, tagRefs, runs, firstRun>>

\* the request of uploadAsset: the file under its base name, sent to the
\* upload URL of the release; the self-hosted provider falls back on the
\* asset endpoint of the release id when that URL is empty
\* (uploadUrl || `.../releases/${releaseId}/assets`)
UploadRequest(name) ==
    [method |-> "POST", ep |-> "upload",
     url |-> IF cfg.platform = "gitea" /\ release.upload_url = ""
             THEN <<"releases/{id}/assets", release.id>>
             ELSE release.upload_url,
     body |-> name]

\* a faulty variant that accepts every path
CheckAssetFile_None(path) == NoError

\* the checks uploadAsset of either provider makes before it sends anything
CheckAssetFile(path) ==
    IF ~existsSync(path) THEN NotFoundOnDisk
    ELSE IF ~isFile(path) THEN NotAFile
    ELSE NoError

\* uploadAsset of either provider: the requests issued, the error thrown, the
\* backend afterwards and the download URL returned
uploadAsset(id, path) ==
    LET name == Basename(path)
        url == <<"download", name>>
        i == IndexOfId(id)
        served == i # 0 /\ ~NameTaken(id, name)
    IN  IF CheckAssetFile(path) # NoError
        THEN {[reqs |-> <<>>, err |-> CheckAssetFile(path), held |-> releases,
               url |-> <<>>]}
        ELSE (IF ~served THEN {} ELSE
              {[reqs |-> <<Answered(UploadRequest(name),
                                    OkResp([browser_download_url |-> url]))>>,
                err |-> NoError,
                held |-> [releases EXCEPT ![i].assets =
                             Append(@, [id |-> NewAssetId, name |-> name,
                                        browser_download_url |-> url])],
                url |-> url]})
             \cup {[reqs |-> <<Answered(UploadRequest(name), ErrResp(e))>>, err |-> e,
                    held |-> releases, url |-> <<>>] :
                      e \in FailuresOf(served) \cup (IF served THEN {} ELSE {Unprocessable})}

\* provider.uploadAsset for the next resolved path
HandleAssets_Upload ==
    /\ pc = "upload"
    /\ todo # <<>>
    /\ existsSync(Head(todo)) /\ isFile(Head(todo))
    /\ Call([op |-> "uploadAsset", id |-> release.id, path |-> Head(todo)])
    /\ \E run \in uploadAsset(release.id, Head(todo)) :
         /\ Requests(run.reqs)
         /\ releases' = run.held
         /\ IF run.err = NoError
            THEN /\ uploaded' = (Basename(Head(todo)) :> run.url) @@ uploaded
                 /\ todo' = Tail(todo)
                 /\ UNCHANGED <<pc, error, failed>>
            ELSE /\ IF cfg.artifactErrorsFailBuild
                    THEN Fails(run.err) /\ UNCHANGED todo
                    ELSE todo' = Tail(todo) /\ UNCHANGED <<pc, error, failed>>
                 /\ UNCHANGED uploaded
    /\ UNCHANGED <<cfg, attempt, existing, payload, release, outputs, tagRefs,
                   runs, firstRun>>

\* provider.uploadAsset called directly, for the next path of the caller's list
Provider_UploadAsset ==
    /\ pc = "uploadAsset"
    /\ todo # <<>>
    /\ Call([op |-> "uploadAsset", id |-> release.id, path |-> Head(todo)])
    /\ \E run \in uploadAsset(release.id, Head(todo)) :
         /\ Requests(run.reqs)
         /\ releases' = run.held
         /\ IF run.err = NoError
            THEN /\ uploaded' = (Basename(Head(todo)) :> run.url) @@ uploaded
                 /\ todo' = Tail(todo)
                 /\ UNCHANGED <<pc, error>>
            ELSE /\ pc' = "failed"
                 /\ error' = run.err
                 /\ UNCHANGED <<uploaded, todo>>
    /\ UNCHANGED <<cfg, attempt, existing, payload, release, outputs, failed,
                   tagRefs, runs, firstRun>>

\* a faulty variant in which the entries already present win
MergeAssets_PriorWins(prior, new) == prior @@ new

\* { ...(release.assets || {}), ...uploadedAssets }
MergeAssets(prior, new) == new @@ prior

\* release.assets = { ...(release.assets || {}), ...uploadedAssets }
HandleAssets_Merge ==
    /\ pc = "upload"
    /\ todo = <<>>
    /\ release' = [release EXCEPT !.assets = MergeAssets(release.assets, uploaded)]
    /\ pc' = "outputs"
    /\ UNCHANGED <<cfg, attempt, existing, payload, error, calls, http, outputs,
                   failed, todo, uploaded, releases, tagRefs, runs, firstRun>>

\* JSON.stringify of an asset map: the text that encodes its entries
Stringify(map) == [json |-> {<<n, map[n]>> : n \in DOMAIN map}]

\* a faulty variant that publishes the asset map even when it is empty
setOutputs_AlwaysAssets(rel) ==
    [id |-> rel.id, htmlUrl |-> rel.html_url, uploadUrl |-> rel.upload_url,
     assets |-> Stringify(rel.assets)]
    @@ Field(Has(rel, "tarball_url") /\ rel.tarball_url # "", "tarballUrl", rel.tarball_url)
    @@ Field(Has(rel, "zipball_url") /\ rel.zipball_url # "", "zipballUrl", rel.zipball_url)

\* ReleaseManager.setOutputs: what reaches the output sink
setOutputs(rel) ==
    [id |-> rel.id, htmlUrl |-> rel.html_url, uploadUrl |-> rel.upload_url]
    @@ Field(Has(rel, "tarball_url") /\ rel.tarball_url # "", "tarballUrl", rel.tarball_url)
    @@ Field(Has(rel, "zipball_url") /\ rel.zipball_url # "", "zipballUrl", rel.zipball_url)
    @@ Field(DOMAIN rel.assets # {}, "assets", Stringify(rel.assets))

Execute_SetOutputs ==
    /\ pc = "outputs"
    /\ outputs' = setOutputs(release)
    /\ pc' = "done"
    /\ UNCHANGED <<cfg, attempt, existing, payload, release, error, calls, http,
                   failed, todo, uploaded, releases, tagRefs, runs, firstRun>>

-----------------------------------------------------------------------------
(* Specification of one invocation *)

\* a faulty variant that goes on without waiting for the promise
Awaited_Not(step) ==
    /\ step
    /\ inflight' = inflight \cup Issued

\* await: the chain goes on only when the promise it waits for has settled;
\* what the step issues is then in flight
Awaited(step) ==
    /\ inflight = {}
    /\ step
    /\ inflight' = inflight \cup Issued

\* the pending request of a call gets its response: the provider sends its
\* next request, or the call settles if that was its last one
Settles ==
    /\ \E f \in inflight :
         inflight' = (inflight \ {f}) \cup
                     (IF f.request # 0 /\ f.request < f.last
                      THEN {[f EXCEPT !.request = @ + 1]} ELSE {})
    /\ UNCHANGED <<cfg, pc, attempt, existing, payload, release, error, calls,
                   http, outputs, failed, todo, uploaded, releases, tagRefs,
                   runs, firstRun>>

Next ==
    \/ Awaited(Execute_GetTag)
    \/ Awaited(Execute_GetReleaseByTag)
    \/ Awaited(GitHub_ListReleases)
    \/ Backend_Indexes
    \/ Awaited(Execute_Skip)
    \/ Awaited(Execute_Prepare)
    \/ Awaited(Execute_CreateTag)
    \/ Awaited(Execute_GenerateReleaseNotes)
    \/ Awaited(GitHub_CreateRelease)
    \/ Awaited(Provider_UpdateRelease)
    \/ Awaited(Gitea_TagExists)
    \/ Awaited(Gitea_GetDefaultBranchSha)
    \/ Awaited(Gitea_CreateTag)
    \/ Awaited(Gitea_PostRelease)
    \/ Awaited(Gitea_ConfirmByTag)
    \/ Awaited(Gitea_ConfirmInList)
    \/ Awaited(HandleAssets_Resolve)
    \/ Awaited(HandleAssets_List)
    \/ Awaited(HandleAssets_Delete)
    \/ Awaited(HandleAssets_Deleted)
    \/ Awaited(HandleAssets_Invalid)
    \/ Awaited(HandleAssets_Upload)
    \/ Awaited(HandleAssets_Merge)
    \/ Awaited(Execute_SetOutputs)
    \/ Settles

Spec == Init /\ [][Next]_vars

-----------------------------------------------------------------------------
(* Specification of invocations in sequence against one backend *)

\* inputs of the repeated invocation: updates are allowed
\* skipIfReleaseExists, commit and generateReleaseNotes, one at a time
RepeatOptions ==
    { <<FALSE, "", FALSE>>, <<TRUE, "", FALSE>>, <<FALSE, "abc123", FALSE>>,
      <<FALSE, "", TRUE>> }

RepeatConfigs ==
    { [Defaults EXCEPT !.platform = p, !.allowUpdates = TRUE,
                       !.skipIfReleaseExists = o[1], !.commit = o[2],
                       !.generateReleaseNotes = o[3],
                       !.body = IF o[3] THEN "" ELSE " Body ",
                       !.draft = d, !.artifacts = art[1], !.removeArtifacts = art[2]] :
        p \in Platforms, o \in RepeatOptions,
        d \in BOOLEAN,
        art \in {<<<<>>, FALSE>>, <<<< <<"dist">>, <<"dist", "a.bin">> >>, TRUE>>} }

RepeatBackends ==
    { <<>>, <<Other>>, <<Held(2, Tag, TRUE, FALSE, FALSE, <<>>)>> }

InitRepeat ==
    /\ cfg \in RepeatConfigs
    /\ releases \in RepeatBackends
    /\ tagRefs \in BOOLEAN
    /\ runs = 1
    /\ firstRun = Null
    /\ inflight = {}
    /\ FreshRun

\* the action is invoked again with the same inputs; nothing but the backend
\* carries over
NextRun ==
    /\ pc \in {"done", "failed"}
    /\ runs < MaxRuns
    /\ runs' = runs + 1
    /\ firstRun' = [outcome |-> pc, release |-> release, calls |-> calls,
                    held |-> releases]
    /\ pc' = "getTag"
    /\ attempt' = 0
    /\ existing' = Null
    /\ payload' = Null
    /\ release' = Null
    /\ error' = NoError
    /\ calls' = <<>>
    /\ http' = <<>>
    /\ outputs' = Null
    /\ failed' = NoError
    /\ todo' = <<>>
    /\ uploaded' = EmptyMap
    /\ UNCHANGED <<cfg, releases, tagRefs>>

SpecRepeat == InitRepeat /\ [][Next \/ Awaited(NextRun)]_vars

-----------------------------------------------------------------------------
(* GiteaProvider.createRelease called on its own, with a config of the
   caller's choice *)

CreatePayloads ==
    { [tag |-> "v1.0.0", name |-> "My Release", body |-> "Body",
       draft |-> d, prerelease |-> FALSE] @@ c :
        d \in BOOLEAN,
        c \in {EmptyRec, [commit |-> ""], [commit |-> "abc123"]} }

InitCreate ==
    /\ cfg \in { [Defaults EXCEPT !.platform = "gitea", !.githubSha = g, !.giteaSha = e] :
                    g \in {"", "sha-github"}, e \in {"", "sha-gitea"} }
    /\ payload \in CreatePayloads
    /\ releases \in {<<>>, <<Other>>}
    /\ tagRefs \in BOOLEAN
    /\ pc = "dispatch"
    /\ attempt = 0
    /\ existing = Null
    /\ release = Null
    /\ error = NoError
    /\ calls = <<>>
    /\ http = <<>>
    /\ outputs = Null
    /\ failed = NoError
    /\ todo = <<>>
    /\ uploaded = EmptyMap
    /\ runs = 1
    /\ firstRun = Null
    /\ inflight = {}

NextCreate ==
    \/ Awaited(Gitea_TagExists)
    \/ Awaited(Gitea_GetDefaultBranchSha)
    \/ Awaited(Gitea_CreateTag)
    \/ Awaited(Gitea_PostRelease)
    \/ Awaited(Gitea_ConfirmByTag)
    \/ Awaited(Gitea_ConfirmInList)
    \/ Backend_Indexes
    \/ Settles

SpecCreate == InitCreate /\ [][NextCreate]_vars

-----------------------------------------------------------------------------
(* ReleaseManager.handleAssets called on its own, with a release result of the
   caller's choice *)

\* asset maps a release result may arrive with
PriorMaps ==
    { EmptyMap,
      ("a.bin" :> <<"stale", "a.bin">>) @@ ("c.bin" :> <<"stale", "c.bin">>) }

InitAssets ==
    /\ cfg \in AssetConfigs
    /\ releases \in { <<Held(2, Tag, FALSE, FALSE, TRUE, as)>> :
                        as \in {<<>>, <<OldAsset, OtherAsset>>} }
    /\ \E prior \in PriorMaps :
         release = IF cfg.platform = "github"
                   THEN GitHubResult(ApiRelease(releases[1]), prior)
                   ELSE GiteaResult(ApiRelease(releases[1]), prior)
    /\ tagRefs = TRUE
    /\ pc = "assets"
    /\ attempt = 0
    /\ existing = Null
    /\ payload = Null
    /\ error = NoError
    /\ calls = <<>>
    /\ http = <<>>
    /\ outputs = Null
    /\ failed = NoError
    /\ todo = <<>>
    /\ uploaded = EmptyMap
    /\ runs = 1
    /\ firstRun = Null
    /\ inflight = {}

NextAssets ==
    \/ Awaited(HandleAssets_Resolve)
    \/ Awaited(HandleAssets_List)
    \/ Awaited(HandleAssets_Delete)
    \/ Awaited(HandleAssets_Deleted)
    \/ Awaited(HandleAssets_Invalid)
    \/ Awaited(HandleAssets_Upload)
    \/ Awaited(HandleAssets_Merge)
    \/ Settles

SpecAssets == InitAssets /\ [][NextAssets]_vars

-----------------------------------------------------------------------------
(* uploadAsset of a provider called on its own, with paths of the caller's
   choice *)

\* paths a caller may pass: what is on disk, what was, and what never was
CallerPaths == {Disk[i] : i \in 1..Len(Disk)} \cup {<<"none.bin">>}

InitUpload ==
    /\ cfg \in {[Defaults EXCEPT !.platform = p] : p \in Platforms}
    /\ releases \in { <<Held(2, Tag, FALSE, FALSE, TRUE, as)>> :
                        as \in {<<>>, <<OldAsset, OtherAsset>>} }
    /\ release = IF cfg.platform = "github"
                 THEN GitHubResult(ApiRelease(releases[1]), EmptyMap)
                 ELSE GiteaResult(ApiRelease(releases[1]), EmptyMap)
    /\ todo \in {<<a>> : a \in CallerPaths}
                \cup {<<a, b>> : a \in Files, b \in CallerPaths}
    /\ tagRefs = TRUE
    /\ pc = "uploadAsset"
    /\ attempt = 0
    /\ existing = Null
    /\ payload = Null
    /\ error = NoError
    /\ calls = <<>>
    /\ http = <<>>
    /\ outputs = Null
    /\ failed = NoError
    /\ uploaded = EmptyMap
    /\ runs = 1
    /\ firstRun = Null
    /\ inflight = {}

SpecUpload == InitUpload /\ [][Awaited(Provider_UploadAsset) \/ Settles]_vars

-----------------------------------------------------------------------------
(* GiteaProvider.createRelease under the settings of the confirmation polling
   that the environment can give *)

Raws ==
    { <<>>, <<"a", "b", "c">>, <<"0">>, <<"-", "5">>, <<"3">>, <<"1", "2", "x">> }

\* a variable of the environment: not set, or set to a text
Settings == {[set |-> FALSE, raw |-> <<>>]} \cup {[set |-> TRUE, raw |-> r] : r \in Raws}

LookupEnvs ==
    { Field(m.set, "GITEA_RELEASE_LOOKUP_MAX_RETRIES", m.raw)
        @@ Field(b.set, "GITEA_RELEASE_LOOKUP_BASE_DELAY_MS", b.raw)
        @@ Field(x.set, "GITEA_RELEASE_LOOKUP_MAX_DELAY_MS", x.raw) :
        m \in Settings, b \in Settings, x \in Settings }

InitBackoff ==
    /\ cfg \in {[Defaults EXCEPT !.platform = "gitea", !.env = e] : e \in LookupEnvs}
    /\ payload = [tag |-> "v1.0.0", name |-> "My Release", body |-> "Body",
                  draft |-> FALSE, prerelease |-> FALSE]
    /\ releases = <<>>
    /\ tagRefs \in BOOLEAN
    /\ pc = "dispatch"
    /\ attempt = 0
    /\ existing = Null
    /\ release = Null
    /\ error = NoError
    /\ calls = <<>>
    /\ http = <<>>
    /\ outputs = Null
    /\ failed = NoError
    /\ todo = <<>>
    /\ uploaded = EmptyMap
    /\ runs = 1
    /\ firstRun = Null
    /\ inflight = {}

SpecBackoff == InitBackoff /\ [][NextCreate]_vars

-----------------------------------------------------------------------------
(* execute under a scheduler that runs every continuation and a network that
   answers every request *)

LiveConfigs ==
    { [Defaults EXCEPT !.platform = p, !.allowUpdates = TRUE,
                       !.skipIfReleaseExists = s,
                       !.generateReleaseNotes = n,
                       !.body = IF n THEN "" ELSE " Body ",
                       !.commit = IF n THEN "abc123" ELSE "",
                       !.artifacts = a, !.removeArtifacts = n] :
        p \in Platforms, s \in BOOLEAN, n \in BOOLEAN,
        a \in {<<>>, << <<"dist">>, <<"b.bin">> >>} }

InitLive ==
    /\ cfg \in LiveConfigs
    /\ releases \in Backends
    /\ tagRefs \in TagRefsOf(releases)
    /\ runs = 1
    /\ firstRun = Null
    /\ inflight = {}
    /\ FreshRun

\* the event loop runs a continuation that is ready, and every request in
\* flight is answered or fails
SpecLive == InitLive /\ [][Next]_vars /\ WF_vars(Next)

-----------------------------------------------------------------------------
(* request() of a provider called on its own, on every kind of response *)

\* JSON.parse of the texts the backend answers with
Parsed == ("{\"id\":2}" :> [id |-> 2])
Contains404(text) == text \in {"<html>404</html>", "Upstream 404"}

RawBodies == {"", "{\"id\":2}", "<html></html>", "<html>404</html>"}

StatusTexts(status) ==
    IF status = 200 THEN {"OK"}
    ELSE IF status = 201 THEN {"Created"}
    ELSE IF status = 204 THEN {"No Content"}
    ELSE IF status = 404 THEN {"Not Found"}
    ELSE {"Internal Server Error", "Upstream 404"}

\* what fetch resolves with
RawResponses ==
    UNION { {[status |-> s, statusText |-> t, body |-> b] :
                t \in StatusTexts(s), b \in RawBodies} :
            s \in {200, 201, 204, 404, 500} }

\* response.ok
IsOk(status) == 200 <= status /\ status <= 299

\* new Error(`HTTP ${response.status} ${response.statusText}: ${errorText}`)
HttpError(raw) ==
    [status |-> raw.status, statusText |-> raw.statusText, body |-> raw.body,
     text404 |-> Contains404(raw.statusText) \/ Contains404(raw.body)]

\* response.json(), JSON.parse(text)
JsonOf(text) ==
    IF text \in DOMAIN Parsed THEN OkResp(Parsed[text])
    ELSE ErrResp([msg |-> "SyntaxError: not valid JSON", text404 |-> Contains404(text)])

\* GitHubProvider.request (BaseProvider.request is the same)
GitHubRequest(raw) ==
    IF ~IsOk(raw.status) THEN ErrResp(HttpError(raw))
    ELSE IF raw.status = 204 THEN OkResp(EmptyRec)
    ELSE JsonOf(raw.body)

\* GiteaProvider.request
GiteaRequest(raw) ==
    IF ~IsOk(raw.status) THEN ErrResp(HttpError(raw))
    ELSE LET text == IF raw.status = 204 THEN "" ELSE raw.body
         IN  IF text = "" THEN OkResp(EmptyRec) ELSE JsonOf(text)

request(raw) ==
    IF cfg.platform = "github" THEN GitHubRequest(raw) ELSE GiteaRequest(raw)

\* this.request(url, {method: 'GET'}) with the response the network gives
Provider_Request ==
    /\ pc = "request"
    /\ \E raw \in RawResponses :
         /\ Requests(<<Answered(Get("releases/tags") @@ [response |-> raw],
                                request(raw))>>)
         /\ IF request(raw).ok
            THEN pc' = "done" /\ UNCHANGED error
            ELSE pc' = "failed" /\ error' = request(raw).err
    /\ UNCHANGED <<cfg, attempt, existing, payload, release, calls, outputs,
                   failed, todo, uploaded, releases, tagRefs, runs, firstRun>>

InitRequest ==
    /\ cfg \in {[Defaults EXCEPT !.platform = p, !.skipCertificateCheck = k] :
                  p \in Platforms, k \in BOOLEAN}
    /\ releases = <<>>
    /\ tagRefs = FALSE
    /\ pc = "request"
    /\ attempt = 0
    /\ existing = Null
    /\ payload = Null
    /\ release = Null
    /\ error = NoError
    /\ calls = <<>>
    /\ http = <<>>
    /\ outputs = Null
    /\ failed = NoError
    /\ todo = <<>>
    /\ uploaded = EmptyMap
    /\ runs = 1
    /\ firstRun = Null
    /\ inflight = {}

SpecRequest == InitRequest /\ [][Awaited(Provider_Request) \/ Settles]_vars

-----------------------------------------------------------------------------
(* GiteaProvider.listAssets called on its own with a tag or a release id *)

RenamedAsset == [id |-> 9, name |-> "a.bin", browser_download_url |-> <<"download", "a2.bin">>]

ListBackends ==
    { <<>>,
      <<Held(2, Tag, FALSE, FALSE, TRUE, <<OldAsset, OtherAsset>>)>>,
      <<Held(2, Tag, FALSE, FALSE, TRUE, <<OldAsset, OtherAsset, RenamedAsset>>), Other>>,
      <<Held(2, Tag, TRUE, FALSE, FALSE, <<OldAsset>>)>>,
      <<Other, Held(2, Tag, FALSE, TRUE, TRUE, <<>>)>> }

\* what a caller passes: the tag, or the id of a release held or not held
Identifiers == {Tag} \cup {ToString(n) : n \in 1..MaxReleases}

\* GET .../releases/tags/{identifier}
TagLookup(identifier) ==
    IF identifier = Tag THEN TagEndpoint
    ELSE {ErrResp(e) : e \in LookupFailuresOf(FALSE) \cup Malformed}

\* provider.listAssets(identifier): existing holds the release the lookup by
\* tag found, todo the assets returned
Provider_ListAssets ==
    /\ pc = "list"
    /\ \E identifier \in Identifiers :
         /\ Call([op |-> "listAssets", id |-> identifier])
         /\ \E run \in GiteaListAssets(identifier, TagLookup(identifier)) :
              /\ Requests(run.reqs)
              /\ existing' = run.release
              /\ IF run.err = NoError
                 THEN /\ todo' = run.assets
                      /\ pc' = "done"
                      /\ UNCHANGED <<error, failed>>
                 ELSE Fails(run.err) /\ UNCHANGED todo
    /\ UNCHANGED <<cfg, attempt, payload, release, outputs, uploaded,
                   releases, tagRefs, runs, firstRun>>

InitList ==
    /\ cfg \in {[Defaults EXCEPT !.platform = "gitea", !.skipCertificateCheck = k] :
                  k \in BOOLEAN}
    /\ releases \in ListBackends
    /\ tagRefs = TRUE
    /\ pc = "list"
    /\ attempt = 0
    /\ existing = Null
    /\ payload = Null
    /\ release = Null
    /\ error = NoError
    /\ calls = <<>>
    /\ http = <<>>
    /\ outputs = Null
    /\ failed = NoError
    /\ todo = <<>>
    /\ uploaded = EmptyMap
    /\ runs = 1
    /\ firstRun = Null
    /\ inflight = {}

SpecList == InitList /\ [][Awaited(Provider_ListAssets) \/ Settles]_vars

-----------------------------------------------------------------------------
(* The repository the provider is created for and the one a request goes to *)

\* process.env.GITHUB_REPOSITORY_OWNER and the name in process.env.GITHUB_REPOSITORY
EnvOwner == "env-org"
EnvRepo == "env-app"

\* repository.split('/').filter(Boolean) of the inputs of the model: the
\* repository input is held as its parts
parseRepository(repository) == [owner |-> repository[1], repo |-> repository[2]]

\* PlatformDetector.detect with the platform given and no repository URL
platformInfo(c) ==
    IF c.platform = "gitea" THEN [owner |-> EnvOwner, repo |-> EnvRepo]
    ELSE [owner |-> "", repo |-> ""]

\* a || b for strings
Or(a, b) == IF a # "" THEN a ELSE b

\* createProvider and the constructor of the provider: this.owner, this.repo
createProvider(c) ==
    LET given == IF c.repository # <<>> THEN parseRepository(c.repository)
                 ELSE [owner |-> Or(c.owner, Or(platformInfo(c).owner, EnvOwner)),
                       repo |-> Or(c.repo, Or(platformInfo(c).repo, EnvRepo))]
    IN  [owner |-> Or(given.owner, EnvOwner), repo |-> Or(given.repo, EnvRepo)]

\* the /repos/{owner}/{repo} part of the URL a request is sent to:
\* createRelease posts to config.repo || this.repo, every other request to
\* this.repo
Repository(req) ==
    [owner |-> createProvider(cfg).owner,
     repo |-> IF req.method = "POST" /\ req.ep = "releases"
              THEN OrElse(payload, "repo", createProvider(cfg).repo)
              ELSE createProvider(cfg).repo]

RepositoryInputs == {<<>>, <<"acme", "app">>}
OwnerInputs == {"", "other-org"}
RepoInputs == {"", "other-app"}

\* every combination of the repository, owner and repo inputs, on runs that
\* look up, tag, create, update and reconcile assets
RepoConfigs ==
    { [Defaults EXCEPT !.platform = p, !.allowUpdates = TRUE,
                       !.skipIfReleaseExists = ~n,
                       !.generateReleaseNotes = n,
                       !.body = IF n THEN "" ELSE " Body ",
                       !.commit = IF n THEN "abc123" ELSE "",
                       !.artifacts = << <<"dist">>, <<"b.bin">> >>,
                       !.removeArtifacts = n,
                       !.repository = y, !.owner = o, !.repo = r] :
        p \in Platforms, n \in BOOLEAN, y \in RepositoryInputs,
        o \in OwnerInputs, r \in RepoInputs }

InitRepo ==
    /\ cfg \in RepoConfigs
    /\ releases \in Backends
    /\ tagRefs \in TagRefsOf(releases)
    /\ runs = 1
    /\ firstRun = Null
    /\ inflight = {}
    /\ FreshRun

SpecRepo == InitRepo /\ [][Next]_vars

-----------------------------------------------------------------------------
(* execute with the body taken from a file that is or is not on disk *)

BodyFileInputs == {<<>>, <<"notes.md">>, <<"missing.md">>}

BodyFileConfigs ==
    { [c EXCEPT !.bodyFile = f] : c \in LiveConfigs, f \in BodyFileInputs }

InitBodyFile ==
    /\ cfg \in BodyFileConfigs
    /\ releases \in Backends
    /\ tagRefs \in TagRefsOf(releases)
    /\ runs = 1
    /\ firstRun = Null
    /\ inflight = {}
    /\ FreshRun

SpecBodyFile == InitBodyFile /\ [][Next]_vars

-----------------------------------------------------------------------------
(* Properties *)

CallsOf(ops) == {i \in 1..Len(calls) : calls[i].op \in ops}
Mutations == {i \in 1..Len(http) : http[i].method \in {"POST", "PATCH", "DELETE"}}
AssetOps == {"listAssets", "deleteAsset", "uploadAsset"}

\* C1: when the lookup found a release that is not a draft and
\* skipIfReleaseExists is set, execute returns that release as fetched, makes
\* no provider call besides getReleaseByTag and sends no POST or PATCH; a draft
\* is never skipped: a run that found a draft and completed has gone through
\* createRelease or updateRelease.
C1_SkipIfReleaseExists ==
    /\ (/\ existing # Null
        /\ cfg.skipIfReleaseExists
        /\ ~TruthyB(existing, "draft")
        /\ pc # "found")
       => /\ pc = "done"
          /\ release = existing
          /\ calls = <<[op |-> "getReleaseByTag", tag |-> Tag]>>
          /\ Mutations = {}
    /\ (existing # Null /\ TruthyB(existing, "draft") /\ pc = "done")
       => CallsOf({"createRelease", "updateRelease"}) # {}

C1_Witness ==
    /\ pc = "done"
    /\ cfg.skipIfReleaseExists /\ cfg.allowUpdates
    /\ cfg.commit # "" /\ cfg.artifacts # <<>>
    /\ existing # Null /\ ~TruthyB(existing, "draft")
    /\ release = existing

\* C2: createRelease and updateRelease are never both called; updateRelease
\* is called, with the existing release's id and the prepared config, only
\* when a release exists and allowUpdates is set; createRelease is called,
\* with the prepared config, only otherwise; a run that got past the dispatch
\* has made the call its case requires.
C2_Dispatch ==
    LET upd == CallsOf({"updateRelease"})
        cre == CallsOf({"createRelease"})
        mustUpdate == existing # Null /\ cfg.allowUpdates
        past == \/ pc \in {"assets", "listAssets", "deleteAssets", "upload", "outputs"}
                \/ pc = "done" /\ outputs # Null
    IN  /\ Cardinality(upd \cup cre) <= 1
        /\ \A i \in upd : /\ mustUpdate
                           /\ calls[i].id = existing.id
                           /\ calls[i].config = payload
        /\ \A i \in cre : /\ ~mustUpdate
                           /\ calls[i].config = payload
        /\ past => IF mustUpdate THEN upd # {} ELSE cre # {}

C2_Witness ==
    /\ pc = "done"
    /\ existing # Null /\ ~cfg.allowUpdates
    /\ CallsOf({"createRelease"}) # {}

TagReleases(rs) == {i \in 1..Len(rs) : rs[i].tag_name = Tag}

\* C3: when the action runs again after a run that created the release and
\* completed (allowUpdates set, same inputs), the second run calls no
\* createRelease, updates the release the first run returned, returns the same
\* release id and leaves the number of releases the backend holds for the tag
\* unchanged.
C3_RepeatIsIdempotent ==
    (/\ runs >= 2
     /\ cfg.allowUpdates
     /\ firstRun.outcome = "done"
     /\ \E i \in 1..Len(firstRun.calls) : firstRun.calls[i].op = "createRelease")
    => /\ CallsOf({"createRelease"}) = {}
       /\ \A i \in CallsOf({"updateRelease"}) : calls[i].id = firstRun.release.id
       /\ release # Null => release.id = firstRun.release.id
       /\ Cardinality(TagReleases(releases)) = Cardinality(TagReleases(firstRun.held))

\* C4: a create request carries no name when omitName is set and no body when
\* omitBody is set, on both platforms and whether or not release notes are
\* generated.
C4_CreateOmitsFields ==
    \A i \in 1..Len(http) :
        (http[i].method = "POST" /\ http[i].ep = "releases")
        => /\ cfg.omitName => ~Has(http[i].body, "name")
           /\ cfg.omitBody => ~Has(http[i].body, "body")

OmitFlags ==
    [name |-> cfg.omitName \/ cfg.omitNameDuringUpdate,
     body |-> cfg.omitBody \/ cfg.omitBodyDuringUpdate,
     draft |-> cfg.omitDraftDuringUpdate,
     prerelease |-> cfg.omitPrereleaseDuringUpdate]

\* what the backend held for the existing release before the update, as far
\* as the run can tell: Held gives every release the same name and body, the
\* lookup reported its draft and prerelease flags
BeforeUpdate ==
    [name |-> "Old name", body |-> "Old body",
     draft |-> existing.draft, prerelease |-> existing.prerelease]

\* C5: on the update path a field whose omit flag is set is absent from the
\* config given to updateRelease; the PATCH body consists of exactly the
\* fields of name, body, draft and prerelease defined in that config, with the
\* config's values; and after the PATCH succeeded the backend still holds the
\* old value of every omitted field.
C5_UpdateOmitsFields ==
    /\ \A i \in CallsOf({"updateRelease"}) : \A x \in DOMAIN OmitFlags :
          OmitFlags[x] => ~Has(calls[i].config, x)
    /\ \A i \in 1..Len(http) :
          (http[i].method = "PATCH" /\ http[i].ep = "releases/{id}")
          => /\ http[i].id = existing.id
             /\ DOMAIN http[i].body = DOMAIN payload \cap DOMAIN OmitFlags
             /\ \A x \in DOMAIN http[i].body : http[i].body[x] = payload[x]
             /\ http[i].answer.ok
                => \A x \in DOMAIN OmitFlags :
                      OmitFlags[x]
                      => releases[IndexOfId(existing.id)][x] = BeforeUpdate[x]

C5_Witness ==
    /\ pc = "done"
    /\ cfg.omitNameDuringUpdate /\ ~cfg.omitName /\ cfg.name # ""
    /\ cfg.omitDraftDuringUpdate /\ ~cfg.omitBodyDuringUpdate /\ ~cfg.omitBody
    /\ \E i \in 1..Len(http) :
         /\ http[i].method = "PATCH"
         /\ http[i].answer.ok
         /\ DOMAIN http[i].body = {"body", "prerelease"}

\* C6: with allowUpdates and updateOnlyUnreleased set and an existing release
\* that is neither a draft nor a prerelease, no updateRelease call and no
\* PATCH is made, and a run that is not skipped ends in failure.
C6_UpdateOnlyUnreleased ==
    (/\ existing # Null
     /\ cfg.allowUpdates /\ cfg.updateOnlyUnreleased
     /\ ~TruthyB(existing, "draft") /\ ~TruthyB(existing, "prerelease"))
    => /\ CallsOf({"updateRelease"}) = {}
       /\ \A i \in 1..Len(http) : http[i].ep # "releases/{id}"
       /\ pc = "done" => SkipCondition(cfg, existing)
\* the existence check has just ended and nothing else has been requested
LookupEnded == Len(calls) = 1 /\ pc \in {"found", "failed"}

\* C7: when the backend holds no release for the tag and the tag endpoint
\* answered 404, getReleaseByTag ends without an error and returns null, on
\* both platforms.
C7_AbsentIsNull ==
    (/\ LookupEnded
     /\ TagReleases(releases) = {}
     /\ http[1].answer = ErrResp(NotFound))
    => /\ pc = "found"
       /\ error = NoError
       /\ existing = Null

C7_Witness ==
    /\ LookupEnded
    /\ cfg.platform = "github"
    /\ TagReleases(releases) = {}
    /\ http[1].answer = ErrResp(NotFound)
    /\ Len(http) = 1 + maxRetries
    /\ \A k \in 2..Len(http) : http[k].answer.ok
    /\ existing = Null

\* the first release of a list page that carries the tag
Listed(page) ==
    page[CHOOSE j \in 1..Len(page) :
            /\ page[j].tag_name = Tag
            /\ \A k \in 1..(j - 1) : page[k].tag_name # Tag]

\* C8: on the primary platform, when the tag endpoint answered 404 and a list
\* request of the fallback returned a page with a release of that tag, the
\* lookup returns that release: its id, its URLs (the upload URL without the
\* template suffix), its assets by name, and its draft and prerelease flags
\* as listed.
C8_DraftLookupFallback ==
    (/\ LookupEnded
     /\ cfg.platform = "github"
     /\ http[1].answer = ErrResp(NotFound))
    => \A k \in 2..Len(http) :
          (http[k].answer.ok /\ TagReleases(http[k].answer.data) # {})
          => LET r == Listed(http[k].answer.data)
             IN  /\ pc = "found"
                 /\ existing # Null
                 /\ existing.id = ToString(r.id)
                 /\ existing.html_url = r.html_url
                 /\ existing.upload_url = SubSeq(r.upload_url, 1, 2)
                 /\ existing.tarball_url = r.tarball_url
                 /\ existing.zipball_url = r.zipball_url
                 /\ existing.draft = r.draft
                 /\ existing.prerelease = r.prerelease
                 /\ DOMAIN existing.assets
                      = {r.assets[a].name : a \in 1..Len(r.assets)}
                 /\ \A a \in 1..Len(r.assets) :
                      existing.assets[r.assets[a].name]
                        = r.assets[a].browser_download_url

C8_Witness ==
    /\ LookupEnded
    /\ cfg.platform = "github"
    /\ http[1].answer = ErrResp(NotFound)
    /\ Len(http) = 3
    /\ http[2].answer.ok /\ TagReleases(http[2].answer.data) = {}
    /\ http[3].answer.ok /\ TagReleases(http[3].answer.data) # {}
    /\ existing # Null /\ existing.draft

\* a request of the primary platform's existence check that failed with
\* something other than HTTP 404
FailedLookups ==
    {k \in 1..Len(http) :
        /\ http[k].method = "GET"
        /\ http[k].ep \in {"releases/tags", "releases"}
        /\ ~http[k].answer.ok
        /\ ~(Has(http[k].answer.err, "status") /\ http[k].answer.err.status = 404)}

\* C9: on the primary platform, once the tag request or a list request of the
\* existence check has failed with anything but HTTP 404, the run has failed
\* with that error: the lookup returned nothing and no createRelease follows.
C9_LookupFailurePropagates ==
    (cfg.platform = "github" /\ pc \notin {"start", "listReleases"})
    => \A k \in FailedLookups :
          /\ pc = "failed"
          /\ error = http[k].answer.err
          /\ CallsOf({"createRelease"}) = {}

\* a create or update request that the backend answered with an error
FailedWrites ==
    {k \in 1..Len(http) :
        /\ \/ http[k].method = "POST" /\ http[k].ep = "releases"
           \/ http[k].method = "PATCH" /\ http[k].ep = "releases/{id}"
        /\ ~http[k].answer.ok}

\* C10: when createRelease or updateRelease has failed, the run has failed
\* with the error the provider threw (the backend's error when the release
\* request itself was refused), no asset was listed, deleted or uploaded, no
\* output was set, and setFailed received the error's message.
C10_WriteFailurePropagates ==
    /\ \A k \in FailedWrites :
          /\ pc = "failed"
          /\ error = http[k].answer.err
    /\ (/\ pc = "failed"
        /\ calls # <<>>
        /\ calls[Len(calls)].op \in {"createRelease", "updateRelease"}
        /\ release = Null)
       => /\ error # NoError
          /\ failed = Message(error)
          /\ outputs = Null
          /\ CallsOf(AssetOps) = {}

C10_Witness ==
    /\ pc = "failed"
    /\ FailedWrites # {}
    /\ calls[Len(calls)].op = "updateRelease"
    /\ cfg.artifacts # <<>>
    /\ failed = Message(error)

\* the environment ref the tag may come from, and whether a tag is available
RefOfRun == IF cfg.githubRef # <<>> THEN cfg.githubRef ELSE cfg.giteaRef
TagAvailable == cfg.tag # "" \/ (RefOfRun # <<>> /\ RefOfRun[1] = "refs/tags/")

\* C11: the run works on the configured tag if there is one, else on the name
\* after refs/tags/ in the environment ref; when neither is available the run
\* fails with the tag-required error without a single provider call or
\* request.
C11_TagResolution ==
    /\ calls # <<>>
       => /\ TagAvailable
          /\ calls[1] = [op |-> "getReleaseByTag",
                         tag |-> IF cfg.tag # "" THEN cfg.tag ELSE RefOfRun[2]]
    /\ ~TagAvailable
       => /\ pc \in {"getTag", "failed"}
          /\ calls = <<>> /\ http = <<>>
          /\ outputs = Null /\ release = Null
          /\ pc = "failed"
             => /\ error = TagRequired
                /\ failed = [text |-> TagRequired.msg]

C11_Witness ==
    /\ pc = "failed"
    /\ cfg.tag = ""
    /\ cfg.githubRef = <<"refs/heads/", "main">>
    /\ cfg.giteaRef = <<"refs/tags/", "v1.0.0">>
    /\ error = TagRequired
    /\ calls = <<>>

\* position in the request log of the tag-existence lookup of the self-hosted
\* createRelease (0 while there is none), and of the release-creation POSTs
TagLookupAt ==
    LET S == {i \in 1..Len(http) : http[i].method = "GET" /\ http[i].ep = "git/refs/tags"}
    IN  IF S = {} THEN 0 ELSE CHOOSE i \in S : \A j \in S : i <= j
ReleasePosts ==
    {i \in 1..Len(http) : http[i].method = "POST" /\ http[i].ep = "releases"}
IsStatus404(resp) ==
    ~resp.ok /\ Has(resp.err, "status") /\ resp.err.status = 404

\* C12: on the self-hosted platform the tag-existence lookup is the first
\* request of createRelease; a release-creation POST follows it directly when
\* the tag exists; otherwise the lookup answered 404 and the POST is directly
\* preceded by a tag-creation request that succeeded, itself directly
\* preceded, when neither a commit nor an environment SHA is given, by the
\* repository lookup and then the branch lookup, both successful. Hence no
\* POST follows a failed lookup or a failed tag creation.
C12_CreateOrdering ==
    cfg.platform = "gitea"
    => LET k == TagLookupAt
       IN  /\ (CallsOf({"createRelease"}) # {}) <=> (k > 0)
           /\ k > 0 => k = 2 + Cardinality(CallsOf({"createTag"}))
           /\ \A r \in ReleasePosts :
                /\ k > 0 /\ k < r
                /\ IF http[k].answer.ok THEN r = k + 1
                   ELSE /\ IsStatus404(http[k].answer)
                        /\ http[r - 1].method = "POST" /\ http[r - 1].ep = "tags"
                        /\ http[r - 1].answer.ok
                        /\ IF TruthyS(payload, "commit") \/ cfg.githubSha # ""
                              \/ cfg.giteaSha # ""
                           THEN r = k + 2
                           ELSE /\ r = k + 4
                                /\ http[k + 1].ep = "repo"
                                /\ http[k + 1].answer.ok
                                /\ Has(http[k + 1].answer.data, "default_branch")
                                /\ http[k + 2].ep = "git/refs/heads"
                                /\ http[k + 2].answer.ok
                                /\ Has(http[k + 2].answer.data, "object")

\* requests of the self-hosted createRelease after its tag lookup
TagPosts ==
    {i \in 1..Len(http) :
        i > TagLookupAt /\ http[i].method = "POST" /\ http[i].ep = "tags"}
BranchLookups ==
    {i \in 1..Len(http) : i > TagLookupAt /\ http[i].ep \in {"repo", "git/refs/heads"}}

\* C13: when the self-hosted createRelease found the tag absent, the tag is
\* created once, at config.commit if that is given, else at GITHUB_SHA, else
\* at GITEA_SHA, else at the SHA the branch lookup returned; the repository
\* and branch lookups are made only when commit and both SHAs are missing;
\* when the tag exists there is neither a lookup nor a tag creation.
C13_CommitPrecedence ==
    (cfg.platform = "gitea" /\ TagLookupAt > 0)
    => /\ Cardinality(TagPosts) <= 1
       /\ \A t \in TagPosts :
            http[t].body.target =
               IF TruthyS(payload, "commit") THEN payload.commit
               ELSE IF cfg.githubSha # "" THEN cfg.githubSha
               ELSE IF cfg.giteaSha # "" THEN cfg.giteaSha
               ELSE http[t - 1].answer.data.object.sha
       /\ BranchLookups # {}
          => /\ ~TruthyS(payload, "commit")
             /\ cfg.githubSha = "" /\ cfg.giteaSha = ""
       /\ http[TagLookupAt].answer.ok
          => TagPosts = {} /\ BranchLookups = {}

C13_Witness ==
    /\ cfg.platform = "gitea"
    /\ TruthyS(payload, "commit")
    /\ cfg.githubSha # "" /\ cfg.giteaSha # ""
    /\ \E t \in TagPosts : http[t].answer.ok /\ http[t].body.target = payload.commit
    /\ ReleasePosts # {}

\* the release-creation POST that was answered without an id, 0 if none
EmptyPostAt ==
    LET ps == {i \in ReleasePosts :
                  http[i].answer.ok /\ ~Has(http[i].answer.data, "id")}
    IN  IF ps = {} THEN 0 ELSE CHOOSE i \in ps : TRUE

\* the lookups of findReleaseByTagWithRetries
Polls ==
    {i \in 1..Len(http) :
        /\ EmptyPostAt > 0 /\ i > EmptyPostAt
        /\ http[i].method = "GET" /\ http[i].ep \in {"releases/tags", "releases"}}

\* a result of createRelease names a release the backend holds under the tag
Confirmed(result) ==
    /\ result.id # ""
    /\ \E j \in TagReleases(releases) : ToString(releases[j].id) = result.id

\* C14: after a release-creation POST answered without an id the self-hosted
\* createRelease polls: lookups follow the POST directly, alternating direct
\* tag lookup then list scan, at most GiteaLookupMaxRetries of each; the first
\* lookup that yields a release is the last one and its release is the
\* result; the confirmation error is raised exactly when every lookup of
\* every attempt yielded nothing; a result always carries the id of a
\* release the backend holds under the tag.
C14_CreateConfirmation ==
    /\ (cfg.platform = "gitea" /\ release # Null /\ ReleasePosts # {})
       => Confirmed(release)
    /\ EmptyPostAt > 0
       => LET p == EmptyPostAt
              n == Cardinality(Polls)
          IN  /\ Polls = (p + 1)..(p + n)
              /\ n <= 2 * GiteaLookupMaxRetries
              /\ \A i \in Polls :
                    /\ http[i].ep = IF (i - p) % 2 = 1 THEN "releases/tags" ELSE "releases"
                    /\ (Has(http[i], "yields") /\ http[i].yields # "")
                       => /\ i = p + n
                          /\ release # Null /\ release.id = http[i].yields
                    /\ ~Has(http[i], "yields")
                       => i = p + n /\ pc = "failed" /\ error # ConfirmError
              /\ pc \in {"confirmByTag", "confirmInList"}
                 => /\ release = Null
                    /\ \A i \in Polls : Has(http[i], "yields") /\ http[i].yields = ""
              /\ release # Null
                 => n > 0 /\ Has(http[p + n], "yields") /\ http[p + n].yields = release.id
              /\ (pc = "failed" /\ error = ConfirmError)
                 <=> /\ n = 2 * GiteaLookupMaxRetries
                     /\ release = Null
                     /\ pc \notin {"confirmByTag", "confirmInList"}
                     /\ \A i \in Polls : Has(http[i], "yields") /\ http[i].yields = ""

C14_Witness ==
    /\ EmptyPostAt > 0
    /\ Cardinality(Polls) = 4
    /\ release # Null
    /\ http[Len(http)].ep = "releases" /\ http[Len(http)].yields = release.id

\* requests of deleteAsset and uploadAsset that the backend refused
FailedAssetRequests ==
    {k \in 1..Len(http) :
        http[k].ep \in {"assets/{id}", "upload"} /\ ~http[k].answer.ok}

\* resolved paths the upload loop rejects before any request
InvalidAt == {i \in 1..Len(UniquePaths) : ~(existsSync(UniquePaths[i]) /\ isFile(UniquePaths[i]))}

\* the run got as far as asset reconciliation: the release was created or
\* updated and paths were resolved
InAssetStage ==
    /\ release # Null
    /\ CallsOf({"createRelease", "updateRelease"}) # {}
    /\ UniquePaths # <<>>

\* assets the release had before reconciliation and still has
Leftover ==
    {a \in {AssetsOf(release.id)[j] : j \in 1..Len(AssetsOf(release.id))} :
        a.id \in {OldAsset.id, OtherAsset.id}}

Doomed(a) ==
    \/ cfg.removeArtifacts
    \/ /\ cfg.replacesArtifacts
       /\ \E i \in 1..Len(UniquePaths) : Basename(UniquePaths[i]) = a.name

\* C15: with artifactErrorsFailBuild disabled no run fails in asset
\* reconciliation, and a run that went through it has attempted the deletion
\* of every asset to delete and the upload of every regular file;
\* with it enabled, a refused delete or upload is the last request and the
\* run has failed with its error, a run that ended normally met no invalid
\* path, and a run that failed on an invalid path uploaded nothing after it.
C15_FlagGovernsAssetFailures ==
    InAssetStage
    => IF ~cfg.artifactErrorsFailBuild
       THEN /\ pc # "failed"
            /\ pc \in {"outputs", "done"}
               => /\ \A a \in Leftover : Doomed(a)
                       => \E c \in CallsOf({"deleteAsset"}) : calls[c].id = ToString(a.id)
                  /\ \A i \in 1..Len(UniquePaths) : i \notin InvalidAt
                       => \E c \in CallsOf({"uploadAsset"}) : calls[c].path = UniquePaths[i]
            /\ pc = "done" => outputs = setOutputs(release)
       ELSE /\ \A k \in FailedAssetRequests :
                  k = Len(http) /\ pc = "failed" /\ error = http[k].answer.err
            /\ pc \in {"outputs", "done"} => InvalidAt = {}
            /\ (pc = "failed" /\ error \in {NotFoundOnDisk, NotAFile})
               => \E i \in InvalidAt :
                    \A c \in CallsOf({"uploadAsset"}) :
                        \E j \in 1..(i - 1) : calls[c].path = UniquePaths[j]

DeletesOf(id) == {c \in CallsOf({"deleteAsset"}) : calls[c].id = id}

\* C16: with removeArtifacts and replacesArtifacts both set, assets are listed
\* at most once, no asset id gets more than one deleteAsset call, every
\* deleteAsset call is one DELETE request, and once the deletions are over
\* every asset the release still has from before got its one call, whatever
\* its name (the remove-all path).
C16_RemoveBeforeReplace ==
    (cfg.removeArtifacts /\ cfg.replacesArtifacts)
    => /\ Cardinality(CallsOf({"listAssets"})) <= 1
       /\ \A c \in CallsOf({"deleteAsset"}) : Cardinality(DeletesOf(calls[c].id)) = 1
       /\ Cardinality({k \in 1..Len(http) : http[k].method = "DELETE"})
            = Cardinality(CallsOf({"deleteAsset"}))
       /\ (InAssetStage /\ pc \in {"upload", "outputs", "done"})
          => \A a \in Leftover : Cardinality(DeletesOf(ToString(a.id))) = 1

C16_Witness ==
    /\ cfg.removeArtifacts /\ cfg.replacesArtifacts
    /\ pc = "done"
    /\ CallsOf({"uploadAsset"}) # {}
    /\ DeletesOf(ToString(OldAsset.id)) # {}
    /\ DeletesOf(ToString(OtherAsset.id)) # {}

UploadsOf(path) == {c \in CallsOf({"uploadAsset"}) : calls[c].path = path}

\* the paths the patterns resolved to, with repetitions
Resolved == {Expand(cfg.artifacts)[i] : i \in 1..Len(Expand(cfg.artifacts))}

\* C17: uploadAsset is called at most once per resolved path, only for
\* resolved paths, and, in a run that went through asset reconciliation
\* without failing, exactly once for every resolved path that is a regular
\* file, however many patterns resolved to it.
C17_AssetDedup ==
    /\ \A c \in CallsOf({"uploadAsset"}) :
          /\ calls[c].path \in Resolved
          /\ Cardinality(UploadsOf(calls[c].path)) = 1
    /\ (InAssetStage /\ pc \in {"outputs", "done"})
       => \A f \in Resolved :
            (existsSync(f) /\ isFile(f)) => Cardinality(UploadsOf(f)) = 1

C17_Witness ==
    /\ Len(Expand(cfg.artifacts)) > Cardinality(Resolved)
    /\ pc = "done"
    /\ \A f \in Resolved : Cardinality(UploadsOf(f)) = 1
    /\ Cardinality(Resolved) = 2

\* base names of the resolved paths
BaseNames == {Basename(UniquePaths[i]) : i \in 1..Len(UniquePaths)}

\* C18: with replacesArtifacts set and removeArtifacts not, deleteAsset is
\* called only with the id of an asset the release had whose name is the base
\* name of a resolved path; an asset of the existing release under another
\* name gets no delete call and is still held, unchanged, by the backend.
C18_ReplaceByName ==
    (cfg.replacesArtifacts /\ ~cfg.removeArtifacts)
    => /\ \A c \in CallsOf({"deleteAsset"}) :
            \E a \in {OldAsset, OtherAsset} :
                calls[c].id = ToString(a.id) /\ a.name \in BaseNames
       /\ \A k \in 1..Len(http) :
            http[k].method = "DELETE"
            => \E a \in {OldAsset, OtherAsset} :
                  http[k].id = ToString(a.id) /\ a.name \in BaseNames
       /\ \A a \in {OldAsset, OtherAsset} :
            (/\ InAssetStage
             /\ existing # Null /\ release.id = existing.id
             /\ a.name \in DOMAIN existing.assets
             /\ a.name \notin BaseNames)
            => \E j \in 1..Len(AssetsOf(release.id)) : AssetsOf(release.id)[j] = a

C18_Witness ==
    /\ cfg.replacesArtifacts /\ ~cfg.removeArtifacts
    /\ pc = "done"
    /\ DeletesOf(ToString(OldAsset.id)) # {}
    /\ OtherAsset.name \in DOMAIN existing.assets
    /\ \E j \in 1..Len(AssetsOf(release.id)) : AssetsOf(release.id)[j] = OtherAsset
    /\ CallsOf({"uploadAsset"}) # {}

\* uploadAsset requests that were answered with a download URL
Uploads == {k \in 1..Len(http) : http[k].ep = "upload" /\ http[k].answer.ok}

\* {base name -> download URL} of the successful uploads, the later one of a
\* name winning
UploadedMap ==
    [n \in {http[k].body : k \in Uploads} |->
        LET last == CHOOSE k \in Uploads :
                        /\ http[k].body = n
                        /\ \A j \in Uploads : http[j].body = n => j <= k
        IN  http[last].answer.data.browser_download_url]

\* the asset map after a map was overlaid with the successful uploads
Overlaid(prior) ==
    [n \in DOMAIN prior \cup DOMAIN UploadedMap |->
        IF n \in DOMAIN UploadedMap THEN UploadedMap[n] ELSE prior[n]]

\* C19: asset reconciliation changes the result's asset map only in its last
\* step, to the map it had overlaid with one entry per successful uploadAsset
\* call: every entry it had is kept unless a same-named upload succeeded and
\* no other name is added.
C19_AssetMap ==
    [][ (pc \in {"assets", "listAssets", "deleteAssets", "upload"})
        => release'.assets =
             (IF pc = "upload" /\ pc' = "outputs" THEN Overlaid(release.assets)
              ELSE release.assets) ]_vars

C19_Witness ==
    /\ pc = "outputs"
    /\ \E k \in Uploads : http[k].body = "a.bin"
    /\ \E k \in 1..Len(http) :
         http[k].ep = "upload" /\ ~http[k].answer.ok /\ http[k].body = "b.bin"
    /\ DOMAIN release.assets = {"a.bin", "c.bin"}
    /\ release.assets["a.bin"] = <<"download", "a.bin">>
    /\ release.assets["c.bin"] = <<"stale", "c.bin">>

\* the requests of generateReleaseNotes
NotesRequests == {k \in 1..Len(http) : http[k].ep = "releases/generate-notes"}

\* releaseConfig as prepareReleaseConfig made it
Prepared == prepareReleaseConfig(cfg, existing)

\* C20: generateReleaseNotes is called at most once, and only when it is
\* requested, no release was found and the prepared config has no non-empty
\* body; the config handed on is the prepared one, with the generated notes
\* as body exactly when the generator returned non-empty notes; a failed
\* generation never fails the run, and createRelease is then called with the
\* prepared config.
C20_NotesBestEffort ==
    LET gen == CallsOf({"generateReleaseNotes"})
    IN  /\ Cardinality(gen) <= 1
        /\ Cardinality(NotesRequests) <= Cardinality(gen)
        /\ gen # {}
           => /\ cfg.generateReleaseNotes
              /\ existing = Null
              /\ ~TruthyS(Prepared, "body")
              /\ ~(pc = "failed" /\ calls[Len(calls)].op = "generateReleaseNotes")
              /\ pc \notin {"generateNotes", "dispatch"}
                 => \E c \in CallsOf({"createRelease"}) :
                       /\ \A g \in gen : g < c
                       /\ calls[c].config = payload
        /\ (payload # Null /\ pc # "generateNotes")
           => payload =
                IF \E k \in NotesRequests : http[k].answer.ok /\ http[k].answer.data.body # ""
                THEN LET k == CHOOSE k \in NotesRequests : TRUE
                     IN  ("body" :> http[k].answer.data.body) @@ Prepared
                ELSE Prepared

C20_Witness ==
    /\ \E k \in NotesRequests : ~http[k].answer.ok
    /\ \E c \in CallsOf({"createRelease"}) : calls[c].config = Prepared
    /\ pc = "done"

\* the tag-creation requests in a request log
TagCreations(log) ==
    {k \in 1..Len(log) :
        log[k].method = "POST" /\ log[k].ep \in {"git/refs", "tags"}}

\* C21: no step issues a tag-creation request while the tag exists on the
\* backend, a run issues at most one such request, and a run with a commit
\* that found no release but an existing tag does not fail where the tag
\* would be created: it goes on towards createRelease.
C21_TagOnlyIfAbsent ==
    [][ /\ tagRefs => TagCreations(http') = TagCreations(http)
        /\ Cardinality(TagCreations(http')) <= 1
        /\ (pc = "found" /\ existing = Null /\ cfg.commit # "" /\ tagRefs)
           => pc' \in {"generateNotes", "dispatch"} ]_vars

\* C22: the manager calls createTag at most once, with the tag and the
\* configured commit, directly after the lookup, exactly when a commit is
\* configured and the lookup found no release; the call precedes
\* generateReleaseNotes and createRelease, never goes with updateRelease, and
\* when it failed neither generateReleaseNotes nor createRelease is called.
C22_ManagerCreatesTag ==
    LET ct == CallsOf({"createTag"})
    IN  /\ Cardinality(ct) <= 1
        /\ \A i \in ct :
              /\ cfg.commit # "" /\ existing = Null
              /\ calls[i] = [op |-> "createTag", tag |-> Tag, commit |-> cfg.commit]
              /\ i = 2 /\ calls[1].op = "getReleaseByTag"
              /\ \A j \in CallsOf({"generateReleaseNotes", "createRelease"}) : i < j
        /\ ct # {} => CallsOf({"updateRelease"}) = {}
        /\ payload # Null => (ct # {} <=> (cfg.commit # "" /\ existing = Null))
        /\ (ct # {} /\ payload = Null)
           => CallsOf({"generateReleaseNotes", "createRelease"}) = {}

C22_Witness ==
    /\ pc = "done"
    /\ CallsOf({"createTag"}) = {2}
    /\ CallsOf({"generateReleaseNotes"}) = {3}
    /\ CallsOf({"createRelease"}) = {4}

\* uploadAsset calls whose path exists and is a regular file
ValidUploads ==
    {c \in CallsOf({"uploadAsset"}) :
        existsSync(calls[c].path) /\ isFile(calls[c].path)}

\* C23: an uploadAsset call whose path does not exist has failed with the
\* asset-file-not-found error, one whose path is not a regular file with the
\* not-a-file error, and neither has issued a request: there are exactly as
\* many upload requests as calls with a regular file.
C23_UploadChecksFile ==
    /\ \A c \in CallsOf({"uploadAsset"}) \ ValidUploads :
          /\ c = Len(calls)
          /\ pc = "failed"
          /\ error = IF ~existsSync(calls[c].path) THEN NotFoundOnDisk ELSE NotAFile
    /\ Cardinality({k \in 1..Len(http) : http[k].ep = "upload"})
         = Cardinality(ValidUploads)
    /\ \A k \in 1..Len(http) : http[k].ep = "upload"

C23_Witness ==
    /\ Len(calls) = 2 /\ Len(http) = 1
    /\ http[1].answer.ok
    /\ calls[2].path \in Dirs
    /\ error = NotAFile

C25_CertificateCheck ==
    \A k \in 1..Len(http) :
        IF cfg.skipCertificateCheck
        THEN Has(http[k], "dispatcher") /\ ~http[k].dispatcher.rejectUnauthorized
        ELSE ~Has(http[k], "dispatcher")

\* a request of getReleaseByTag in execute (the first request of a run) or of
\* the tag-existence check that was not answered with a release or a ref and
\* not with HTTP 404 either
NotAbsences ==
    {k \in 1..Len(http) :
        /\ http[k].method = "GET"
        /\ \/ k = 1 /\ http[k].ep = "releases/tags"
           \/ http[k].ep = "git/refs/tags"
        /\ ~http[k].answer.ok
        /\ ~(Has(http[k].answer.err, "status") /\ http[k].answer.err.status = 404)}

\* C26: a lookup of getReleaseByTag or of the tag-existence check whose
\* response was an error with a status other than 404, or a success with a
\* body that is not valid JSON, is never read as not-found: it is the last
\* request of the run, which has failed with that error.
C26_NotFoundOnlyOn404 ==
    \A k \in NotAbsences :
        /\ k = Len(http)
        /\ pc = "failed"
        /\ error = http[k].answer.err

LastCall(op) == calls' # calls /\ calls'[Len(calls')].op = op

\* C27: on the remove-all path every asset the listing returned is queued
\* for deletion whatever its name; while the queue is not empty the next
\* provider call is deleteAsset for its head, after which the run goes on
\* with the rest of the queue or has failed; uploadAsset is called only once
\* the queue of deletions is empty and after listAssets, and no deleteAsset
\* call follows an uploadAsset call (remove-all and replace-by-name alike).
C27_RemoveAllOrdering ==
    [][ /\ (pc = "listAssets" /\ pc' = "deleteAssets" /\ cfg.removeArtifacts)
            => todo' = AssetEntries(AssetsOf(release.id))
        /\ (pc = "deleteAssets" /\ todo # <<>> /\ calls' # calls)
            => /\ calls' = Append(calls, [op |-> "deleteAsset", id |-> Head(todo).id])
               /\ \/ pc' = "deleteAssets" /\ todo' = Tail(todo)
                  \/ pc' = "failed" /\ cfg.artifactErrorsFailBuild
        /\ LastCall("uploadAsset")
            => /\ pc = "upload"
               /\ (cfg.removeArtifacts \/ cfg.replacesArtifacts)
                  => /\ Cardinality(CallsOf({"listAssets"})) = 1
                     /\ \A d \in CallsOf({"deleteAsset"}) :
                           \A l \in CallsOf({"listAssets"}) : l < d
        /\ LastCall("deleteAsset")
            => pc = "deleteAssets" /\ CallsOf({"uploadAsset"}) = {}
        /\ (pc = "deleteAssets" /\ pc' = "upload") => todo = <<>>
      ]_vars

C27_Witness ==
    /\ cfg.removeArtifacts /\ ~cfg.replacesArtifacts
    /\ pc = "done"
    /\ OtherAsset.name \notin BaseNames
    /\ DeletesOf(ToString(OldAsset.id)) # {}
    /\ DeletesOf(ToString(OtherAsset.id)) # {}
    /\ CallsOf({"uploadAsset"}) # {}
    /\ \A d \in CallsOf({"deleteAsset"}) : \A u \in CallsOf({"uploadAsset"}) : d < u

\* the uploadAsset calls made so far are for paths of the deduplicated path
\* list, in the order of that list
UploadsInOrder ==
    LET paths == UniquePaths
        ups == CallsOf({"uploadAsset"})
    IN  \A c \in ups :
          \E i \in 1..Len(paths) :
             /\ paths[i] = calls[c].path
             /\ \A d \in ups :
                   c < d => \E j \in (i + 1)..Len(paths) : paths[j] = calls[d].path

\* C28: at most one provider call, pending on at most one request, is in
\* flight at any time: it is the call made last, with the requests sent
\* last, so that no call or request was issued while another was in flight;
\* the uploadAsset calls follow the order of the deduplicated path list.
C28_Sequential ==
    /\ Cardinality(inflight) <= 1
    /\ \A f \in inflight :
         /\ f.call = Len(calls)
         /\ f.last \in {0, Len(http)}
         /\ f.request = 0 <=> f.last = 0
         /\ f.request <= f.last
    /\ CallsOf({"uploadAsset"}) # {} => UploadsInOrder

C28_Witness ==
    /\ Cardinality(CallsOf({"uploadAsset"})) >= 2
    /\ CallsOf({"deleteAsset"}) # {}
    /\ \E f \in inflight :
         /\ calls[f.call].op = "uploadAsset"
         /\ f.request = Len(http)

DirectRequests ==
    {k \in 1..Len(http) : http[k].method = "GET" /\ http[k].ep = "releases/tags"}
ListRequests ==
    {k \in 1..Len(http) : http[k].method = "GET" /\ http[k].ep = "releases"}
\* the requests a provider sent after waiting
Delayed == {k \in 1..Len(http) : Has(http[k], "after")}

\* the lookup of the primary platform: at most one direct request, before at
\* most maxRetries list requests; the provider waits retryDelay before each
\* list request but the first and before no other request; no list request
\* follows a list that held the tag.  The confirmation polling of the
\* self-hosted platform: at most the configured number of attempts.
BoundedRetries ==
    /\ cfg.platform = "github"
       => /\ Cardinality(DirectRequests) <= 1
          /\ Cardinality(ListRequests) <= maxRetries
          /\ \A k \in ListRequests :
                /\ \E d \in DirectRequests : d < k
                /\ k \in Delayed <=> \E j \in ListRequests : j < k
                /\ (http[k].answer.ok /\ FindByTag(http[k].answer.data) # 0)
                   => \A j \in ListRequests : j <= k
          /\ \A k \in Delayed : k \in ListRequests /\ http[k].after = retryDelay
    /\ cfg.platform = "gitea"
       => /\ Cardinality(Delayed) <= GiteaLookupMaxRetries
          /\ Cardinality(ListRequests) <= GiteaLookupMaxRetries

Terminated == pc \in {"done", "failed"}

\* C29: every run of execute ends, completed or failed, when every request
\* is answered, and the retries on the way stay within their bounds.
C29_Termination == []BoundedRetries /\ <>Terminated

C29_Witness ==
    /\ cfg.platform = "github"
    /\ Cardinality(ListRequests) = maxRetries
    /\ Cardinality(Delayed) = maxRetries - 1
    /\ pc = "done"

\* what a setting of the environment stands for: the decimal integers among
\* the texts, with the number each denotes
Literals == (<<"0">> :> 0) @@ (<<"3">> :> 3) @@ (<<"-", "5">> :> 0 - 5)
Unparseable == {<<"a", "b", "c">>}

\* the bound in force by the rule of the override: the integer, negatives
\* taken as 0, or the default when the variable is unset, empty or no number
InForce(name, default) ==
    IF ~Has(cfg.env, name) \/ cfg.env[name] = <<>> \/ cfg.env[name] \in Unparseable
    THEN default
    ELSE IF Literals[cfg.env[name]] < 0 THEN 0 ELSE Literals[cfg.env[name]]

\* every variable that is set is empty, a decimal integer or no number at all
PlainEnv ==
    \A name \in DOMAIN cfg.env :
        cfg.env[name] \in {<<>>} \cup Unparseable \cup DOMAIN Literals

\* the number of the attempt a delayed request opens
AttemptOf(k) == Cardinality({j \in Delayed : j <= k})

DefaultDelays == <<500, 1000, 2000, 4000, 8000, 8000, 8000, 8000, 8000, 8000>>

\* C30: the confirmation polling waits min(base * 2^(n-1), max) before its
\* attempt n and makes at most the configured number of attempts, each
\* bound being the override of the environment when that is an integer
\* (0 for a negative one) and the default when it is unset, empty or no
\* number; with nothing set the delays are 500, 1000, 2000, 4000, 8000 and
\* then 8000, over at most 10 attempts; with a maximum of 0 no lookup is
\* made and createRelease fails with the confirmation error.
C30_Backoff ==
    /\ PlainEnv
       => LET maxAttempts == InForce("GITEA_RELEASE_LOOKUP_MAX_RETRIES", 10)
              base == InForce("GITEA_RELEASE_LOOKUP_BASE_DELAY_MS", 500)
              ceiling == InForce("GITEA_RELEASE_LOOKUP_MAX_DELAY_MS", 8000)
          IN  /\ Cardinality(Delayed) <= maxAttempts
              /\ \A k \in Delayed :
                    LET d == base * 2^(AttemptOf(k) - 1)
                    IN  http[k].after = IF d <= ceiling THEN d ELSE ceiling
              /\ (maxAttempts = 0 /\ EmptyPostAt > 0)
                 => /\ Polls = {}
                    /\ pc = "failed" /\ error = ConfirmError
    /\ DOMAIN cfg.env = {}
       => /\ Cardinality(Delayed) <= Len(DefaultDelays)
          /\ \A k \in Delayed : http[k].after = DefaultDelays[AttemptOf(k)]

C30_Witness ==
    /\ DOMAIN cfg.env = {}
    /\ Cardinality(Delayed) = 10
    /\ pc = "failed" /\ error = ConfirmError

\* C31: request() of either provider answers a success response with status
\* 204, or with another 2xx status and an empty body, with an empty object
\* and no error, and a response that is not 2xx with an error that carries
\* the status, the status text and the raw body.
C31_RequestExecutor ==
    \A k \in 1..Len(http) :
        Has(http[k], "response")
        => LET raw == http[k].response
               ans == http[k].answer
           IN  /\ (IsOk(raw.status) /\ (raw.status = 204 \/ raw.body = ""))
                  => ans = OkResp(EmptyRec)
               /\ ~IsOk(raw.status)
                  => /\ ~ans.ok
                     /\ ans.err.status = raw.status
                     /\ ans.err.statusText = raw.statusText
                     /\ ans.err.body = raw.body

\* C32: listAssets of the self-hosted provider looks its identifier up as a
\* tag first. When a release is found by tag, its assets are returned with an
\* empty id each and the endpoint keyed by id is not requested; that endpoint
\* is requested only when the lookup by tag yields nothing, and its assets
\* carry the ids the backend holds. No returned id is invented.
ByIdRequests == {k \in 1..Len(http) : http[k].ep = "releases/{id}"}

C32_ListAssets ==
    (calls # <<>> /\ calls[1].op = "listAssets" /\ pc \in {"done", "failed"})
    => /\ http # <<>> /\ http[1].ep = "releases/tags"
       /\ ByIdRequests \subseteq {2}
       /\ existing # Null
          => /\ ByIdRequests = {}
             /\ pc = "done"
             /\ Len(todo) = Cardinality(DOMAIN existing.assets)
             /\ \A i \in 1..Len(todo) :
                  /\ todo[i].id = ""
                  /\ todo[i].name \in DOMAIN existing.assets
                  /\ todo[i].url = existing.assets[todo[i].name]
       /\ (existing = Null /\ pc = "done")
          => /\ ByIdRequests = {2}
             /\ todo = AssetEntries(AssetsOf(calls[1].id))
       /\ \A i \in 1..Len(todo) : todo[i].id # "" => AssetHeld(todo[i].id)

C32_Witness ==
    /\ pc = "done"
    /\ calls # <<>> /\ calls[1].op = "listAssets"
    /\ existing # Null
    /\ Len(todo) = 2
    /\ Len(releases[1].assets) = 3

\* the artifacts input is set and its patterns resolve to no path
NoArtifacts == cfg.artifacts # <<>> /\ UniquePaths = <<>>

\* C33: when the patterns resolve to no path, handleAssets returns without a
\* call of listAssets, deleteAsset or uploadAsset and without a request, also
\* when removeArtifacts or replacesArtifacts is set, and leaves the release
\* result and its asset map as they were; execute does not fail after the
\* release was created or updated and publishes the outputs of that release.
C33_NoArtifacts ==
    /\ [](NoArtifacts
          => /\ CallsOf(AssetOps) = {}
             /\ (release # Null /\ CallsOf({"createRelease", "updateRelease"}) # {})
                => /\ pc \in {"assets", "outputs", "done"}
                   /\ failed = NoError
                   /\ pc = "done" => outputs = setOutputs(release))
    /\ [][(NoArtifacts /\ pc = "assets" /\ pc' # pc)
          => (pc' = "outputs" /\ release' = release /\ calls' = calls /\ http' = http)]_vars

C33_Witness ==
    /\ NoArtifacts
    /\ cfg.removeArtifacts /\ cfg.replacesArtifacts
    /\ pc = "done" /\ outputs # Null
    /\ CallsOf({"updateRelease"}) # {}

ReleaseCalls == CallsOf({"createRelease", "updateRelease"})

\* C34: the manager calls getReleaseByTag once, as its first provider call (a
\* run that has no tag to look up makes no provider call at all); it calls
\* createRelease or updateRelease at most once and never both; every
\* listAssets, deleteAsset and uploadAsset call comes after that call has
\* returned a release.
C34_CallOrder ==
    /\ Cardinality(CallsOf({"getReleaseByTag"})) <= 1
    /\ calls # <<>> => calls[1].op = "getReleaseByTag"
    /\ pc = "done" => Cardinality(CallsOf({"getReleaseByTag"})) = 1
    /\ Cardinality(ReleaseCalls) <= 1
    /\ \A i \in CallsOf(AssetOps) :
         /\ release # Null
         /\ \E j \in ReleaseCalls : j < i
         /\ \A f \in inflight : f.call \notin ReleaseCalls

C34_Witness ==
    /\ pc = "done"
    /\ CallsOf({"updateRelease"}) # {}
    /\ CallsOf({"deleteAsset"}) # {}
    /\ CallsOf({"uploadAsset"}) # {}

\* C35: all requests of one execute go to the same (owner, repo), whatever
\* the repository, owner and repo inputs are.
C35_SameRepository ==
    \A i, j \in 1..Len(http) : Repository(http[i]) = Repository(http[j])

\* C36: whenever execute has returned a release, the skip of an existing
\* release included, the id, html_url and upload_url of that release have
\* been published as outputs.
C36_OutputsPublished ==
    (pc = "done" /\ release # Null)
    => /\ outputs # Null
       /\ outputs.id = release.id
       /\ outputs.htmlUrl = release.html_url
       /\ outputs.uploadUrl = release.upload_url

\* C37: a run that failed while the payload was prepared (the body file does
\* not exist) has made no createTag, createRelease or updateRelease call.
C37_NoMutationBeforePayload ==
    (pc = "failed" /\ Has(error, "msg") /\ error.msg = "Body file not found")
    => CallsOf({"createTag", "createRelease", "updateRelease"}) = {}

\* C38: in the confirmation polling of the self-hosted createRelease a list
\* scan that fails, whatever the failure, gives null and the polling goes on
\* (to the next attempt, or to the confirmation error after the last one); a
\* direct tag lookup that fails with anything but a 404 status is thrown as
\* it is: it is the last request of the run, which has failed with that
\* error and not with the confirmation error.
C38_PollingFailures ==
    /\ pc = "confirmInList"
       => \A resp \in ListEndpoint : ~resp.ok => findReleaseInList(resp) = Null
    /\ pc = "confirmByTag"
       => \A resp \in TagEndpoint :
            (~resp.ok /\ ~IsStatus404(resp))
            => GiteaGetReleaseByTag(resp) = Throw(resp.err)
    /\ \A i \in Polls :
         /\ (http[i].ep = "releases/tags" /\ ~Has(http[i], "yields"))
            => /\ i = Len(http)
               /\ pc = "failed"
               /\ error # ConfirmError
         /\ (http[i].ep = "releases" /\ http[i].yields = "")
            => \/ i < Len(http)
               \/ pc = "confirmByTag"
               \/ pc = "failed" /\ error = ConfirmError

\* the PATCH requests the backend answered with success and an empty body
EmptyPatches ==
    {k \in 1..Len(http) :
        /\ http[k].method = "PATCH" /\ http[k].ep = "releases/{id}"
        /\ http[k].answer.ok /\ ~Has(http[k].answer.data, "id")}

\* C39: every result of createRelease or updateRelease, and every result
\* published, has a non-empty id, html_url and upload_url, also when the
\* self-hosted backend answers the mutation with an empty body; after such an
\* update the result carries the requested id and every upload goes to the
\* asset endpoint of that release.
C39_NoPartialResult ==
    /\ (release # Null /\ ReleaseCalls # {})
       => /\ release.id # ""
          /\ release.html_url # ""
          /\ release.upload_url # ""
          /\ \A k \in EmptyPatches : release.id = http[k].id
          /\ \A k \in 1..Len(http) :
               http[k].ep = "upload"
               => \/ http[k].url = <<"releases/{id}/assets", release.id>>
                  \/ /\ Len(http[k].url) = 2
                     /\ http[k].url[1] = "upload"
                     /\ ToString(http[k].url[2]) = release.id
    /\ outputs # Null
       => /\ outputs.id # ""
          /\ outputs.htmlUrl # ""
          /\ outputs.uploadUrl # ""
====
